---- MODULE Spec2Model ----
(***************************************************************************)
(* Wage computation engine of diyur003 (logic.py, app_utils.py).           *)
(*                                                                         *)
(* Text values (HH:MM strings, date keys) are tuples of one-character      *)
(* strings, so that splitting and integer parsing are computed and can     *)
(* fail.  Python's None is the tuple NoneVal.  Dates are day ordinals:     *)
(* ordinal 1 is 2024-01-01 (a Monday); date + timedelta(days=1) is n + 1.  *)
(* Money is kept in agorot (1/100 shekel) so that every amount is an       *)
(* integer.                                                                *)
(***************************************************************************)
EXTENDS Integers, Sequences, FiniteSets, TLC

VARIABLES
    pc,                \* position of the running computation
    year, month,       \* requested month
    reports,           \* time reports of the person, as the query returns them
    segments_by_shift, \* shift type id -> list of segment templates
    shabbat_cache,     \* date key -> window
    daily_map,         \* _build_daily_map's result: day_key -> entry
    day_queue,         \* sorted(daily_map.items()) still to be processed
    day_log,           \* per processed day: what _process_daily_map derived
    totals,            \* _process_daily_map's running totals
    work_days_set,
    vacation_days_set,
    monthly_totals,    \* calculate_person_monthly_totals' result
    standby_rates,     \* rows of the standby_rates table
    standby_rates_cache, \* calculate_monthly_summary's pre-loaded rates; Idle
                       \* in a computation that queries the table
    person,            \* the people row: start_date
    payment_comps,     \* payment_components rows of the month
    minimum_wage,      \* hourly minimum wage, in agorot
    daily_segments,    \* get_daily_segments_data's result list
    part_log,          \* get_daily_segments_data: the bucket additions of every part
    fn_args,           \* arguments of the pure function under check
    fn_ret,            \* its result
    chain_pos,         \* _calculate_chain_wages: loop position
    chain_res,         \* _calculate_chain_wages: result dict so far
    returned           \* calculate_monthly_summary: what the earlier people's
                       \* computations were given and returned

vars == <<pc, year, month, reports, segments_by_shift, shabbat_cache,
          daily_map, day_queue, day_log, totals, work_days_set,
          vacation_days_set, monthly_totals, standby_rates, standby_rates_cache, person,
          payment_comps, minimum_wage, daily_segments, part_log,
          fn_args, fn_ret, chain_pos, chain_res, returned>>

---------------------------------------------------------------------------
(* Program constants                                                       *)

MINUTES_PER_HOUR == 60
MINUTES_PER_DAY == 1440
REGULAR_HOURS_LIMIT == 480
OVERTIME_125_LIMIT == 600
WORK_DAY_START_MINUTES == 480
WORK_DAY_CUTOFF == 480
SHABBAT_ENTER_DEFAULT == 960
SHABBAT_EXIT_DEFAULT == 1320
BREAK_THRESHOLD_MINUTES == 60
\* STANDBY_CANCEL_OVERLAP_THRESHOLD = 0.70, as a percentage
STANDBY_CANCEL_OVERLAP_PCT == 70
\* DEFAULT_STANDBY_RATE = 70.0 shekel, in agorot
DEFAULT_STANDBY_RATE == 7000
\* STANDARD_WORK_DAYS_PER_MONTH = 21.66, times 100
STANDARD_WORK_DAYS_X100 == 2166
\* MAX_SICK_DAYS_PER_MONTH = 1.5, times 10
MAX_SICK_DAYS_X10 == 15
SIX_DAY_WEEK_THRESHOLD == 20
FRIDAY == 4
SATURDAY == 5

---------------------------------------------------------------------------
(* Bounds of the model                                                     *)

MaxReports == 2

---------------------------------------------------------------------------
(* Text                                                                    *)

NoneVal == <<"None">>

\* an intermediate value of a function body, computed once and named in F
With(v, F(_)) == F(v)

DigitChars == {"0", "1", "2", "3", "4", "5", "6", "7", "8", "9"}

DigitVal(c) ==
    CASE c = "0" -> 0 [] c = "1" -> 1 [] c = "2" -> 2 [] c = "3" -> 3
      [] c = "4" -> 4 [] c = "5" -> 5 [] c = "6" -> 6 [] c = "7" -> 7
      [] c = "8" -> 8 [] c = "9" -> 9

DigitChar(n) ==
    CASE n = 0 -> "0" [] n = 1 -> "1" [] n = 2 -> "2" [] n = 3 -> "3"
      [] n = 4 -> "4" [] n = 5 -> "5" [] n = 6 -> "6" [] n = 7 -> "7"
      [] n = 8 -> "8" [] n = 9 -> "9"

\* f"{n:02d}" and f"{n:04d}" for the non-negative values formatted here
Pad2(n) == <<DigitChar((n \div 10) % 10), DigitChar(n % 10)>>

Pad4(n) == <<DigitChar((n \div 1000) % 10), DigitChar((n \div 100) % 10)>> \o Pad2(n)

\* f"{h:02d}:{m:02d}"
minutes_to_time_str(minutes) ==
    LET day_minutes == minutes % MINUTES_PER_DAY
    IN  Pad2(day_minutes \div MINUTES_PER_HOUR) \o <<":">> \o Pad2(day_minutes % MINUTES_PER_HOUR)

RECURSIVE DigitsValue(_)
DigitsValue(s) ==
    IF Len(s) = 0 THEN 0
    ELSE 10 * DigitsValue(SubSeq(s, 1, Len(s) - 1)) + DigitVal(s[Len(s)])

RECURSIVE StripSpaces(_)
StripSpaces(s) ==
    IF Len(s) = 0 THEN s
    ELSE IF s[1] = " " THEN StripSpaces(Tail(s))
    ELSE IF s[Len(s)] = " " THEN StripSpaces(SubSeq(s, 1, Len(s) - 1))
    ELSE s

\* Python's int(text): surrounding blanks and one sign are accepted, then
\* decimal digits only; anything else is a ValueError.
PyInt(text) ==
    With(StripSpaces(text), LAMBDA t :
    With(IF Len(t) > 0 /\ t[1] \in {"+", "-"} THEN Tail(t) ELSE t, LAMBDA digits :
        IF ~(Len(digits) > 0 /\ \A i \in 1..Len(digits) : digits[i] \in DigitChars)
        THEN [err |-> "ValueError", val |-> 0]
        ELSE [err |-> "",
              val |-> IF t[1] = "-" THEN 0 - DigitsValue(digits)
                      ELSE DigitsValue(digits)]))

\* a, b = map(int, value.split(":")): exactly two fields, both integers.
\* None has no split (AttributeError).
SplitInts(value) ==
    IF value = NoneVal THEN [err |-> "AttributeError", a |-> 0, b |-> 0]
    ELSE
      With({i \in 1..Len(value) : value[i] = ":"}, LAMBDA colons :
        IF Cardinality(colons) # 1 THEN [err |-> "ValueError", a |-> 0, b |-> 0]
        ELSE
          With(CHOOSE j \in colons : TRUE, LAMBDA i :
          With(PyInt(SubSeq(value, 1, i - 1)), LAMBDA a :
          With(PyInt(SubSeq(value, i + 1, Len(value))), LAMBDA b :
            IF a.err # "" \/ b.err # ""
            THEN [err |-> "ValueError", a |-> 0, b |-> 0]
            ELSE [err |-> "", a |-> a.val, b |-> b.val]))))

parse_hhmm(value) == SplitInts(value)

span_minutes(start_str, end_str) ==
    With(parse_hhmm(start_str), LAMBDA s :
    With(parse_hhmm(end_str), LAMBDA e :
    With(s.a * MINUTES_PER_HOUR + s.b, LAMBDA start :
    With(e.a * MINUTES_PER_HOUR + e.b, LAMBDA end :
        [start |-> start,
         end |-> IF end <= start THEN end + MINUTES_PER_DAY ELSE end]))))

Max(a, b) == IF a >= b THEN a ELSE b

Min(a, b) == IF a <= b THEN a ELSE b

overlap_minutes(a_start, a_end, b_start, b_end) ==
    Max(0, Min(a_end, b_end) - Max(a_start, b_start))

---------------------------------------------------------------------------
(* Calendar: datetime.date over December 2023 .. February 2024             *)

MonthTable ==
    { [y |-> 2023, m |-> 12, first |-> -30, len |-> 31],
      [y |-> 2024, m |-> 1,  first |-> 1,   len |-> 31],
      [y |-> 2024, m |-> 2,  first |-> 32,  len |-> 29] }

MonthRow(d) == CHOOSE r \in MonthTable : r.first <= d /\ d < r.first + r.len

YearOf(d) == MonthRow(d).y

MonthOf(d) == MonthRow(d).m

DayOf(d) == d - MonthRow(d).first + 1

\* date.weekday(): Monday is 0
Weekday(d) == (d + 69) % 7

\* strftime("%Y-%m-%d")
FmtYmd(d) == Pad4(YearOf(d)) \o <<"-">> \o Pad2(MonthOf(d)) \o <<"-">> \o Pad2(DayOf(d))

\* strftime("%d/%m/%Y")
FmtDmy(d) == Pad2(DayOf(d)) \o <<"/">> \o Pad2(MonthOf(d)) \o <<"/">> \o Pad4(YearOf(d))

\* datetime(year, month, 1).date()
FirstOfMonth(y, m) == (CHOOSE r \in MonthTable : r.y = y /\ r.m = m).first

\* code point order of the characters of a day key
CharRank(c) == IF c = "/" THEN 0 ELSE 1 + DigitVal(c)

\* Python's str comparison a < b
RECURSIVE StrLess(_, _)
StrLess(a, b) ==
    IF Len(b) = 0 THEN FALSE
    ELSE IF Len(a) = 0 THEN TRUE
    ELSE IF a[1] # b[1] THEN CharRank(a[1]) < CharRank(b[1])
    ELSE StrLess(Tail(a), Tail(b))

---------------------------------------------------------------------------
(* Shabbat oracle                                                          *)

\* the except clause without AttributeError
ShabbatCaughtNarrow == {"ValueError", "KeyError"}

Range(f) == { f[i] : i \in DOMAIN f }

\* the exceptions the try block of is_shabbat_time catches
ShabbatCaught == {"ValueError", "KeyError", "AttributeError"}

\* shabbat_data["enter"].split(":") and the two int() calls
WindowField(shabbat_data, key) ==
    IF key \notin DOMAIN shabbat_data THEN [err |-> "KeyError", a |-> 0, b |-> 0]
    ELSE SplitInts(shabbat_data[key])

\* the fallback with the Friday entry one minute late
ShabbatDefaultLate(day_of_week, minute_in_day) ==
    IF day_of_week = FRIDAY /\ minute_in_day > SHABBAT_ENTER_DEFAULT THEN TRUE
    ELSE IF day_of_week = SATURDAY /\ minute_in_day < SHABBAT_EXIT_DEFAULT THEN TRUE
    ELSE FALSE

\* the fallback after the try block
ShabbatDefault(day_of_week, minute_in_day) ==
    IF day_of_week = FRIDAY /\ minute_in_day >= SHABBAT_ENTER_DEFAULT THEN TRUE
    ELSE IF day_of_week = SATURDAY /\ minute_in_day < SHABBAT_EXIT_DEFAULT THEN TRUE
    ELSE FALSE

\* the Saturday whose window is consulted
TargetSaturday(day_of_week, current_date) ==
    IF day_of_week = FRIDAY THEN current_date + 1 ELSE current_date

\* the window comparisons with the Friday bound exclusive
ShabbatFromWindowStrict(day_of_week, minute_in_day, enter_minutes, exit_minutes) ==
    IF day_of_week = FRIDAY /\ minute_in_day > enter_minutes THEN TRUE
    ELSE IF day_of_week = SATURDAY /\ minute_in_day < exit_minutes THEN TRUE
    ELSE FALSE

\* the comparisons inside the try block
ShabbatFromWindow(day_of_week, minute_in_day, enter_minutes, exit_minutes) ==
    IF day_of_week = FRIDAY /\ minute_in_day >= enter_minutes THEN TRUE
    ELSE IF day_of_week = SATURDAY /\ minute_in_day < exit_minutes THEN TRUE
    ELSE FALSE

\* is_shabbat_time: [raised |-> the exception that escapes ("" when none),
\*                   value |-> the returned boolean]
is_shabbat_time(day_of_week, minute_in_day, shift_id, current_date, cache) ==
    IF day_of_week \notin {FRIDAY, SATURDAY} THEN [raised |-> "", value |-> FALSE]
    ELSE
      With(FmtYmd(TargetSaturday(day_of_week, current_date)), LAMBDA saturday_str :
      With(IF saturday_str \in DOMAIN cache THEN cache[saturday_str] ELSE <<>>,
           LAMBDA shabbat_data :
      With([raised |-> "", value |-> ShabbatDefault(day_of_week, minute_in_day)],
           LAMBDA fallback :
        IF DOMAIN shabbat_data = {} THEN fallback
        ELSE
          With(WindowField(shabbat_data, "enter"), LAMBDA enter :
          With(WindowField(shabbat_data, "exit"), LAMBDA exit :
          With(IF enter.err # "" THEN enter.err ELSE exit.err, LAMBDA err :
            IF err = ""
            THEN [raised |-> "",
                  value |-> ShabbatFromWindow(day_of_week, minute_in_day,
                                              enter.a * MINUTES_PER_HOUR + enter.b,
                                              exit.a * MINUTES_PER_HOUR + exit.b)]
            ELSE IF err \in ShabbatCaught THEN fallback
            ELSE [raised |-> err, value |-> FALSE]))))))

---------------------------------------------------------------------------
(* Wage tiers and accrual                                                  *)

\* calculate_wage_rate with the first limit compared by < instead of <=
WageRateStrictLimit(minutes_in_chain, is_shabbat) ==
    IF minutes_in_chain < REGULAR_HOURS_LIMIT
    THEN (IF is_shabbat THEN "150%" ELSE "100%")
    ELSE IF minutes_in_chain <= OVERTIME_125_LIMIT
    THEN (IF is_shabbat THEN "175%" ELSE "125%")
    ELSE (IF is_shabbat THEN "200%" ELSE "150%")

calculate_wage_rate(minutes_in_chain, is_shabbat) ==
    IF minutes_in_chain <= REGULAR_HOURS_LIMIT
    THEN (IF is_shabbat THEN "150%" ELSE "100%")
    ELSE IF minutes_in_chain <= OVERTIME_125_LIMIT
    THEN (IF is_shabbat THEN "175%" ELSE "125%")
    ELSE (IF is_shabbat THEN "200%" ELSE "150%")

calculate_annual_vacation_quota(work_year, is_6_day_week) ==
    IF is_6_day_week
    THEN CASE work_year <= 4 -> 14
           [] work_year = 5 -> 16
           [] work_year = 6 -> 18
           [] work_year = 7 -> 21
           [] work_year = 8 -> 22
           [] work_year = 9 -> 23
           [] OTHER -> 24
    ELSE CASE work_year <= 5 -> 12
           [] work_year = 6 -> 14
           [] work_year = 7 -> 15
           [] work_year = 8 -> 16
           [] work_year = 9 -> 17
           [] work_year = 10 -> 18
           [] work_year = 11 -> 19
           [] OTHER -> 20

\* Python's int() of a quotient: truncation toward zero
TruncDiv(a, b) == IF a >= 0 THEN a \div b ELSE 0 - ((0 - a) \div b)

\* the 6-day week chosen one day later
IsSixDayWeekLate(actual_work_days) == actual_work_days > SIX_DAY_WEEK_THRESHOLD + 1

\* is_6_day_week = actual_work_days > 20
IsSixDayWeek(actual_work_days) == actual_work_days > SIX_DAY_WEEK_THRESHOLD

\* current_work_year of calculate_accruals.  start_date is
\* [kind, day]: "none" (None or 0), "datetime" (psycopg2 timestamp),
\* "epoch" (seconds; day is its local date) or "date" (a datetime.date, for
\* which datetime.fromtimestamp raises and the except keeps year 1).
CurrentWorkYear(start_date, report_year, report_month) ==
    IF start_date.kind = "none" THEN 1
    ELSE IF start_date.kind = "date" THEN 1
    ELSE
      LET report_dt == FirstOfMonth(report_year, report_month)
          diff_days == report_dt - start_date.day
          \* int(diff.days / 365.25)
          seniority_years == TruncDiv(4 * diff_days, 1461)
      IN  Max(1, seniority_years + 1)

\* calculate_accruals.  job_scope = min(actual_work_days / 21.66, 1.0) is
\* kept as the numerator job_scope_num over 2166; the accruals as
\* numerator/denominator pairs, so no rounding is introduced.
calculate_accruals(actual_work_days, start_date, report_year, report_month) ==
    With(Min(actual_work_days * 100, STANDARD_WORK_DAYS_X100), LAMBDA job_scope_num :
    With(CurrentWorkYear(start_date, report_year, report_month), LAMBDA current_work_year :
    With(IsSixDayWeek(actual_work_days), LAMBDA is_6_day_week :
    With(calculate_annual_vacation_quota(current_work_year, is_6_day_week),
         LAMBDA annual_quota :
        [ job_scope_num |-> job_scope_num,
          job_scope_den |-> STANDARD_WORK_DAYS_X100,
          sick_num |-> job_scope_num * MAX_SICK_DAYS_X10,
          sick_den |-> STANDARD_WORK_DAYS_X100 * 10,
          vacation_num |-> annual_quota * job_scope_num,
          vacation_den |-> 12 * STANDARD_WORK_DAYS_X100,
          is_6_day_week |-> is_6_day_week,
          seniority |-> current_work_year,
          annual_quota |-> annual_quota,
          job_scope_pct |-> (job_scope_num * 100) \div STANDARD_WORK_DAYS_X100 ]))))

---------------------------------------------------------------------------
(* Daily segment builder                                                   *)

\* ids are positive serial keys; None is 0
NoneId == 0

\* the markers looked for in a shift name ("חופשה", "מחלה"); a shift name is
\* a tuple of words, and `marker in name` is membership of the word
VACATION_MARKER == "hufsha"

SICK_MARKER == "mahala"

NameContains(name, marker) == \E i \in 1..Len(name) : name[i] = marker

\* Python's `not value` for a text column: None or the empty string
Falsy(text) == text = NoneVal \/ text = <<>>

\* the test that skips an incomplete report
IsIncomplete(r) ==
    Falsy(r.start_time) \/ Falsy(r.end_time) \/ r.shift_type_id = NoneId

\* a split that keeps an overnight report in one part
ReportPartsUnsplit(r) ==
    With(span_minutes(r.start_time, r.end_time), LAMBDA sp :
        << [date |-> r.date, start |-> sp.start, end |-> sp.end] >>)

\* the split of a report at midnight: one or two (date, start, end) parts
ReportParts(r) ==
    With(span_minutes(r.start_time, r.end_time), LAMBDA sp :
        IF sp.end <= MINUTES_PER_DAY
        THEN << [date |-> r.date, start |-> sp.start, end |-> sp.end] >>
        ELSE << [date |-> r.date, start |-> sp.start, end |-> MINUTES_PER_DAY],
                [date |-> r.date + 1, start |-> 0, end |-> sp.end - MINUTES_PER_DAY] >>)

\* segments_by_shift.get(shift_type_id, []) without the synthetic template
SegListNoFallback(r, sbs) ==
    IF r.shift_type_id \in DOMAIN sbs THEN sbs[r.shift_type_id] ELSE <<>>

\* segments_by_shift.get(shift_type_id, []) with the synthetic work
\* template of a shift type that has none
SegList(r, sbs) ==
    With(IF r.shift_type_id \in DOMAIN sbs THEN sbs[r.shift_type_id] ELSE <<>>,
         LAMBDA found :
        IF found = <<>>
        THEN << [id |-> NoneId, start_time |-> r.start_time, end_time |-> r.end_time,
                 wage_percent |-> 100, segment_type |-> "work"] >>
        ELSE found)

\* the part is inside the requested month
InMonth(p_date, y, m) == YearOf(p_date) = y /\ MonthOf(p_date) = m

\* AlignTemplate without the +1440 of a template that starts before an
\* overnight report does
AlignTemplateUnmoved(seg, r_start, r_end, is_second_day) ==
    With(span_minutes(seg.start_time, seg.end_time), LAMBDA sp :
        IF is_second_day
        THEN [start |-> sp.start - MINUTES_PER_DAY, end |-> sp.end - MINUTES_PER_DAY]
        ELSE [start |-> sp.start, end |-> sp.end])

\* a template placed on the current part's day: the +1440 of a template that
\* starts before an overnight report does, and the -1440 of the second day
AlignTemplate(seg, r_start, r_end, is_second_day) ==
    With(span_minutes(seg.start_time, seg.end_time), LAMBDA sp :
    With(r_end > MINUTES_PER_DAY, LAMBDA shift_crosses :
    With(shift_crosses /\ sp.start < r_start, LAMBDA moved :
    With(IF moved THEN sp.start + MINUTES_PER_DAY ELSE sp.start, LAMBDA s_start :
    With(IF moved THEN sp.end + MINUTES_PER_DAY ELSE sp.end, LAMBDA s_end :
        IF is_second_day
        THEN [start |-> s_start - MINUTES_PER_DAY, end |-> s_end - MINUTES_PER_DAY]
        ELSE [start |-> s_start, end |-> s_end])))))

\* overlap of a part with an aligned template
PartOverlap(part, cur) == overlap_minutes(part.start, part.end, cur.start, cur.end)

\* _build_daily_map: is_vacation_report
IsVacationReport(r) ==
    \/ r.work_type = "sick_vacation"
    \/ NameContains(r.shift_name, VACATION_MARKER)
    \/ NameContains(r.shift_name, SICK_MARKER)

\* _build_daily_map: eff_type
EffType(r, seg) == IF IsVacationReport(r) THEN "vacation" ELSE seg.segment_type

\* the tuple appended to entry["segments"] for one template and one part
MakeSegment(r, seg, part, cur, eff_type) ==
    [ start |-> Max(cur.start, part.start),
      end |-> Min(cur.end, part.end),
      type |-> eff_type,
      shift_id |-> r.shift_type_id,
      segment_id |-> seg.id,
      apartment_type_id |-> r.apartment_type_id,
      is_married |-> r.is_married ]

\* the inner loop over seg_list for one part: the appended segments, in order
RECURSIVE PartSegments(_, _, _, _)
PartSegments(r, part, seg_list, k) ==
    IF k > Len(seg_list) THEN <<>>
    ELSE
      With(span_minutes(r.start_time, r.end_time), LAMBDA sp :
      With(seg_list[k], LAMBDA seg :
      With(AlignTemplate(seg, sp.start, sp.end, part.date > r.date), LAMBDA cur :
      With(PartSegments(r, part, seg_list, k + 1), LAMBDA rest :
        IF PartOverlap(part, cur) <= 0 THEN rest
        ELSE <<MakeSegment(r, seg, part, cur, EffType(r, seg))>> \o rest))))

\* daily_map.setdefault(day_key, ...) followed by the appends
AddToDay(dm, p_date, segs) ==
    With(FmtDmy(p_date), LAMBDA day_key :
        IF day_key \in DOMAIN dm
        THEN [dm EXCEPT ![day_key].segments = @ \o segs]
        ELSE dm @@ (day_key :> [segments |-> segs, date |-> p_date]))

\* the loop over the parts of one report
RECURSIVE AddParts(_, _, _, _, _, _, _)
AddParts(dm, r, parts, k, sbs, y, m) ==
    IF k > Len(parts) THEN dm
    ELSE
      LET part == parts[k]
          next == IF ~InMonth(part.date, y, m) THEN dm
                  ELSE AddToDay(dm, part.date, PartSegments(r, part, SegList(r, sbs), 1))
      IN  AddParts(next, r, parts, k + 1, sbs, y, m)

\* the loop over the reports
RECURSIVE BuildFrom(_, _, _, _, _, _)
BuildFrom(dm, rs, k, sbs, y, m) ==
    IF k > Len(rs) THEN dm
    ELSE
      LET r == rs[k]
          next == IF IsIncomplete(r) THEN dm
                  ELSE AddParts(dm, r, ReportParts(r), 1, sbs, y, m)
      IN  BuildFrom(next, rs, k + 1, sbs, y, m)

_build_daily_map(rs, sbs, y, m) == BuildFrom(<<>>, rs, 1, sbs, y, m)

\* sorted(daily_map.items()): the day keys in string order
RECURSIVE SortedKeys(_)
SortedKeys(keys) ==
    IF keys = {} THEN <<>>
    ELSE With(CHOOSE a \in keys : \A b \in keys \ {a} : StrLess(a, b), LAMBDA least :
           <<least>> \o SortedKeys(keys \ {least}))

---------------------------------------------------------------------------
(* Standby rate resolver                                                   *)

MaritalStatus(is_married) == IF is_married THEN "married" ELSE "single"

\* the rate query without its marital_status condition
RateRowsAnyMarital(rates, segment_id, apartment_type_id, marital_status, priority) ==
    { row \in rates : /\ row.segment_id = segment_id
                      /\ row.apartment_type_id = apartment_type_id
                      /\ row.priority = priority }

\* the rows a SELECT ... LIMIT 1 of get_standby_rate may return
RateRows(rates, segment_id, apartment_type_id, marital_status, priority) ==
    { row \in rates : /\ row.segment_id = segment_id
                      /\ row.apartment_type_id = apartment_type_id
                      /\ row.marital_status = marital_status
                      /\ row.priority = priority }

\* get_standby_rate, in agorot (the code returns amount / 100 shekel)
get_standby_rate(rates, segment_id, apartment_type_id, is_married) ==
    With(MaritalStatus(is_married), LAMBDA marital_status :
    With(IF apartment_type_id # NoneId
         THEN RateRows(rates, segment_id, apartment_type_id, marital_status, 10)
         ELSE {}, LAMBDA specific :
    With(RateRows(rates, segment_id, NoneId, marital_status, 0), LAMBDA general :
        IF specific # {} THEN (CHOOSE row \in specific : TRUE).amount
        ELSE IF general # {} THEN (CHOOSE row \in general : TRUE).amount
        ELSE DEFAULT_STANDBY_RATE)))

\* the key of a row in calculate_monthly_summary's standby_rates_cache
RateKey(row) ==
    <<row.segment_id, row.apartment_type_id, row.marital_status, row.priority>>

\* standby_rates_cache as the loop over SELECT * FROM standby_rates fills
\* it: key -> amount.  Of several rows with one key the row fetched last
\* stays; the tables of the monthly summary hold every key once
RateCacheOf(rows) ==
    [ key \in { RateKey(row) : row \in rows } |->
          (CHOOSE row \in rows : RateKey(row) = key).amount ]

\* a cache lookup that asks for the general rate first
RateFromCacheGeneralFirst(cache, seg_id, apt_type, is_married) ==
    With(MaritalStatus(is_married), LAMBDA marital_status :
        IF <<seg_id, NoneId, marital_status, 0>> \in DOMAIN cache
        THEN cache[<<seg_id, NoneId, marital_status, 0>>]
        ELSE IF apt_type # NoneId /\ <<seg_id, apt_type, marital_status, 10>> \in DOMAIN cache
        THEN cache[<<seg_id, apt_type, marital_status, 10>>]
        ELSE DEFAULT_STANDBY_RATE)

\* _calculate_totals_from_data's get_standby_rate_from_cache, in agorot
get_standby_rate_from_cache(cache, seg_id, apt_type, is_married) ==
    With(MaritalStatus(is_married), LAMBDA marital_status :
        IF apt_type # NoneId /\ <<seg_id, apt_type, marital_status, 10>> \in DOMAIN cache
        THEN cache[<<seg_id, apt_type, marital_status, 10>>]
        ELSE IF <<seg_id, NoneId, marital_status, 0>> \in DOMAIN cache
        THEN cache[<<seg_id, NoneId, marital_status, 0>>]
        ELSE DEFAULT_STANDBY_RATE)

---------------------------------------------------------------------------
(* Chain classifier                                                        *)

ZeroWages ==
    [ calc100 |-> 0, calc125 |-> 0, calc150 |-> 0, calc175 |-> 0, calc200 |-> 0,
      calc150_shabbat |-> 0, calc150_overtime |-> 0,
      calc150_shabbat_100 |-> 0, calc150_shabbat_50 |-> 0 ]

WageKeys == DOMAIN ZeroWages

AddWages(a, b) == [k \in WageKeys |-> a[k] + b[k]]

\* minutes of the chain before its k-th segment
RECURSIVE MinutesBefore(_, _)
MinutesBefore(chain, k) ==
    IF k <= 1 THEN 0
    ELSE MinutesBefore(chain, k - 1) + Max(0, chain[k - 1].end - chain[k - 1].start)

\* the weekday handed to is_shabbat_time for an absolute minute of the day
EffWeekday(day_date, minute_abs) ==
    (Weekday(day_date) + (minute_abs \div MINUTES_PER_DAY)) % 7

\* the body of the minute loop: the classification of the minute with chain
\* index minutes_counter at absolute offset minute_abs
ClassifyMinute(minutes_counter, minute_abs, shift_id, day_date, cache) ==
    With(is_shabbat_time(EffWeekday(day_date, minute_abs),
                         minute_abs % MINUTES_PER_DAY,
                         shift_id, day_date, cache).value, LAMBDA is_shab :
        [rate |-> calculate_wage_rate(minutes_counter, is_shab), is_shab |-> is_shab])

\* the increments of the result dict for one classified minute
WagesOfMinute(c) ==
    [ calc100 |-> IF c.rate = "100%" THEN 1 ELSE 0,
      calc125 |-> IF c.rate = "125%" THEN 1 ELSE 0,
      calc150 |-> IF c.rate = "150%" THEN 1 ELSE 0,
      calc175 |-> IF c.rate = "175%" THEN 1 ELSE 0,
      calc200 |-> IF c.rate = "200%" THEN 1 ELSE 0,
      calc150_shabbat |-> IF c.rate = "150%" /\ c.is_shab THEN 1 ELSE 0,
      calc150_overtime |-> IF c.rate = "150%" /\ ~c.is_shab THEN 1 ELSE 0,
      calc150_shabbat_100 |-> IF c.rate = "150%" /\ c.is_shab THEN 1 ELSE 0,
      calc150_shabbat_50 |-> IF c.rate = "150%" /\ c.is_shab THEN 1 ELSE 0 ]

\* the minute loop over one segment of a chain, started with the counter at
\* `before`: the counts of its minutes
SegmentWages(seg, before, day_date, cache) ==
    With([m \in 0..(seg.end - seg.start - 1) |->
             ClassifyMinute(before + m + 1, seg.start + m, seg.shift_id, day_date, cache)],
         LAMBDA cls :
    With(Cardinality({m \in DOMAIN cls : cls[m].rate = "150%" /\ cls[m].is_shab}),
         LAMBDA n150s :
      LET n(rate) == Cardinality({m \in DOMAIN cls : cls[m].rate = rate})
      IN  [ calc100 |-> n("100%"), calc125 |-> n("125%"), calc150 |-> n("150%"),
            calc175 |-> n("175%"), calc200 |-> n("200%"),
            calc150_shabbat |-> n150s, calc150_overtime |-> n("150%") - n150s,
            calc150_shabbat_100 |-> n150s, calc150_shabbat_50 |-> n150s ]))

RECURSIVE ChainWagesFrom(_, _, _, _)
ChainWagesFrom(chain, k, day_date, cache) ==
    IF k > Len(chain) THEN ZeroWages
    ELSE AddWages(SegmentWages(chain[k], MinutesBefore(chain, k), day_date, cache),
                  ChainWagesFrom(chain, k + 1, day_date, cache))

_calculate_chain_wages(chain_segments, day_date, cache) ==
    ChainWagesFrom(chain_segments, 1, day_date, cache)

---------------------------------------------------------------------------
(* Standby cancellation filter and the day loop of _process_daily_map      *)

\* list.sort(key=lambda x: x[0]): stable insertion by start
RECURSIVE SortByStart(_)
SortByStart(s) ==
    IF Len(s) <= 1 THEN s
    ELSE
      With(SortByStart(SubSeq(s, 1, Len(s) - 1)), LAMBDA front :
      With(s[Len(s)], LAMBDA x :
      With(Cardinality({i \in 1..Len(front) : front[i].start <= x.start}), LAMBDA k :
        SubSeq(front, 1, k) \o <<x>> \o SubSeq(front, k + 1, Len(front)))))

\* the partition of a day's segments by type
IsStandbySeg(seg) == seg.type = "standby"

IsVacationSeg(seg) == seg.type = "vacation"

IsWorkSeg(seg) == seg.type # "standby" /\ seg.type # "vacation"

\* the `seen` loop: the first segment of every (start, end) pair
RECURSIVE Dedup(_)
Dedup(s) ==
    IF Len(s) = 0 THEN s
    ELSE
      With(Dedup(SubSeq(s, 1, Len(s) - 1)), LAMBDA front :
      With(s[Len(s)], LAMBDA x :
        IF \E i \in 1..Len(front) : front[i].start = x.start /\ front[i].end = x.end
        THEN front
        ELSE Append(front, x)))

RECURSIVE SumOverlap(_, _, _)
SumOverlap(sb, work, k) ==
    IF k > Len(work) THEN 0
    ELSE overlap_minutes(sb.start, sb.end, work[k].start, work[k].end)
         + SumOverlap(sb, work, k + 1)

\* overlap_ratio < STANDBY_CANCEL_OVERLAP_THRESHOLD, the test that keeps a
\* standby segment.  total_overlap / standby_duration is a quotient of two
\* integers below 2^53 and 0.70 is the double nearest 7/10, so the float
\* comparison agrees with the integer one.
RatioBelowThreshold(total_overlap, standby_duration) ==
    100 * total_overlap < STANDBY_CANCEL_OVERLAP_PCT * standby_duration

\* a filter that keeps every standby of positive duration
StandbyKeptWhatever(sb, work) == sb.end - sb.start > 0

\* the monthly filter: TRUE when the standby segment is kept
StandbyKept(sb, work) ==
    /\ sb.end - sb.start > 0
    /\ RatioBelowThreshold(SumOverlap(sb, work, 1), sb.end - sb.start)

StandbyFilter(standby, work) == SelectSeq(standby, LAMBDA sb : StandbyKept(sb, work))

\* all_events entries
WorkEvent(w) == [w EXCEPT !.type = "work"]

\* a close_chain that leaves the chain open and credits nothing
CloseChainLeftOpen(st, day_date, cache) == st

\* close_chain
CloseChain(st, day_date, cache) ==
    IF st.chain = <<>> THEN st
    ELSE [st EXCEPT !.wages = AddWages(@, _calculate_chain_wages(st.chain, day_date, cache)),
                    !.chains = Append(@, st.chain),
                    !.chain = <<>>]

IsSpecial(event) == event.type \in {"standby", "vacation"}

\* the break test with the threshold minute counted as a break
ShouldBreakAtThreshold(st, event) ==
    /\ st.chain # <<>>
    /\ \/ IsSpecial(event)
       \/ /\ st.last_end # -1
          /\ event.start - st.last_end >= BREAK_THRESHOLD_MINUTES

\* should_break
ShouldBreak(st, event) ==
    /\ st.chain # <<>>
    /\ \/ IsSpecial(event)
       \/ /\ st.last_end # -1
          /\ event.start - st.last_end > BREAK_THRESHOLD_MINUTES

\* is_continuation that never recognises a continuation
ContinuationNever(event) == event.start < 0

\* is_continuation
IsContinuation(event) == event.start = 0

\* the rate a standby event draws
EventRate(event, rates) ==
    get_standby_rate(rates, event.segment_id, event.apartment_type_id, event.is_married)

\* get_standby_rate_fn(seg_id, apt_type, is_married_bool): the function the
\* caller handed to _process_daily_map, which asks the table or the cache
RateOf(event, rate_fn) ==
    IF rate_fn.preloaded
    THEN get_standby_rate_from_cache(rate_fn.cache, event.segment_id,
                                     event.apartment_type_id, event.is_married)
    ELSE EventRate(event, rate_fn.rows)

\* one iteration of `for event in all_events`
EventStep(st, event, day_date, cache, rates) ==
    With(IF ShouldBreak(st, event) THEN CloseChain(st, day_date, cache) ELSE st,
         LAMBDA st1 :
        IF IsSpecial(event)
        THEN IF event.type = "standby" /\ ~IsContinuation(event)
             THEN [st1 EXCEPT !.standby_payment = @ + RateOf(event, rates),
                              !.paid = Append(@, event),
                              !.last_end = event.end]
             ELSE IF event.type = "vacation"
             THEN [st1 EXCEPT !.vacation_minutes = @ + (event.end - event.start),
                              !.last_end = event.end]
             ELSE [st1 EXCEPT !.last_end = event.end]
        ELSE [st1 EXCEPT !.chain = Append(@, event), !.last_end = event.end])

RECURSIVE EventLoop(_, _, _, _, _, _)
EventLoop(st, events, k, day_date, cache, rates) ==
    IF k > Len(events) THEN st
    ELSE EventLoop(EventStep(st, events[k], day_date, cache, rates),
                   events, k + 1, day_date, cache, rates)

\* the state of the day loop before the first event; last_end = -1 is None;
\* chains and paid record the closed chains and the paid standby events
DayStart ==
    [ chain |-> <<>>, last_end |-> -1, standby_payment |-> 0, vacation_minutes |-> 0,
      wages |-> ZeroWages, chains |-> <<>>, paid |-> <<>> ]

\* the body of `for day_key, entry in sorted(daily_map.items())` up to the
\* final close_chain()
ProcessEntry(entry, cache, rates) ==
    With(SortByStart(SelectSeq(entry.segments, IsStandbySeg)), LAMBDA standby_sorted :
    With(SelectSeq(entry.segments, IsVacationSeg), LAMBDA vacation_segments :
    With(Dedup(SortByStart(SelectSeq(entry.segments, IsWorkSeg))), LAMBDA work_segments :
    With(StandbyFilter(standby_sorted, work_segments), LAMBDA standby_segments :
    With(SortByStart(
            [i \in 1..Len(work_segments) |-> WorkEvent(work_segments[i])]
            \o standby_segments \o vacation_segments), LAMBDA all_events :
    With(CloseChain(EventLoop(DayStart, all_events, 1, entry.date, cache, rates),
                    entry.date, cache), LAMBDA st :
        [ date |-> entry.date,
          work_segments |-> work_segments,
          standby_all |-> standby_sorted,
          standby_segments |-> standby_segments,
          vacation_segments |-> vacation_segments,
          all_events |-> all_events,
          chains |-> st.chains,
          paid |-> st.paid,
          day_wages |-> st.wages,
          day_standby_payment |-> st.standby_payment,
          day_vacation_minutes |-> st.vacation_minutes ]))))))

\* the 08:00 rule without its previous-day branch
WorkDayOfSameDay(seg, day_date, y, m) == day_date

\* the day loop reaches a call of get_standby_rate_fn: a standby segment
\* that survives the filter and is not a continuation
DrawsRate(entry) ==
    \E sb \in Range(StandbyFilter(
                      SortByStart(SelectSeq(entry.segments, IsStandbySeg)),
                      Dedup(SortByStart(SelectSeq(entry.segments, IsWorkSeg))))) :
        ~IsContinuation(sb)

\* the date a work segment counts for under the 08:00 rule; 0 - 1000 when
\* it counts for none
WorkDayOf(seg, day_date, y, m) ==
    IF seg.start >= WORK_DAY_CUTOFF THEN day_date
    ELSE IF seg.end > WORK_DAY_CUTOFF THEN day_date
    ELSE IF InMonth(day_date - 1, y, m) THEN day_date - 1
    ELSE 0 - 1000

WorkDaysOf(work_segments, day_date, y, m) ==
    { WorkDayOf(work_segments[i], day_date, y, m) : i \in 1..Len(work_segments) }
        \ {0 - 1000}

ZeroTotals ==
    [ wages |-> ZeroWages, total_hours |-> 0, standby_payment |-> 0, vacation_minutes |-> 0 ]

TierSum(w) == w.calc100 + w.calc125 + w.calc150 + w.calc175 + w.calc200

\* the "update totals" block at the end of a day
AddDayTotals(t, day) ==
    [ wages |-> AddWages(t.wages, day.day_wages),
      total_hours |-> t.total_hours + TierSum(day.day_wages),
      standby_payment |-> t.standby_payment + day.day_standby_payment,
      vacation_minutes |-> t.vacation_minutes + day.day_vacation_minutes ]

---------------------------------------------------------------------------
(* The per-day breakdown: get_daily_segments_data                          *)

\* the tier pay with the 150% minutes weighted as 125%
TierPayFlat150(w, wage) ==
    (4 * w.calc100 + 5 * w.calc125 + 5 * w.calc150 + 7 * w.calc175 + 8 * w.calc200) * wage

\* 240 * (tier pay), over the minimum wage: the tier minutes weighted by
\* 1.0, 1.25, 1.5, 1.75 and 2.0 and divided by 60
TierPayX240(w, wage) ==
    (4 * w.calc100 + 5 * w.calc125 + 6 * w.calc150 + 7 * w.calc175 + 8 * w.calc200) * wage

\* bucket labels are texts: "כוננות", "חופשה", "מחלה", "שעות עבודה" are the
\* one-word tuples below, f"{wage_percent}%" is the digits followed by "%"
LabelStandby == <<"standby">>

LabelVacation == <<"vacation">>

LabelSick == <<"sick">>

LabelWorkHours == <<"work_hours">>

RECURSIVE DigitsOf(_)
DigitsOf(n) == IF n < 10 THEN <<DigitChar(n)>> ELSE DigitsOf(n \div 10) \o <<DigitChar(n % 10)>>

PctLabel(wage_percent) == DigitsOf(wage_percent) \o <<"%">>

\* effective_seg_type of the per-day path: the name markers only
DailyEffType(r, seg) ==
    IF NameContains(r.shift_name, SICK_MARKER) THEN "sick"
    ELSE IF NameContains(r.shift_name, VACATION_MARKER) THEN "vacation"
    ELSE seg.segment_type

DailyLabel(eff_type, seg) ==
    IF eff_type = "standby" THEN LabelStandby
    ELSE IF eff_type = "vacation" THEN LabelVacation
    ELSE IF eff_type = "sick" THEN LabelSick
    ELSE PctLabel(seg.wage_percent)

\* the bucket additions of one part: one per overlapping template, in
\* order, then the uncovered remainder when it is positive
RECURSIVE TemplateAdds(_, _, _, _)
TemplateAdds(r, part, seg_list, k) ==
    IF k > Len(seg_list) THEN <<>>
    ELSE
      With(span_minutes(r.start_time, r.end_time), LAMBDA sp :
      With(seg_list[k], LAMBDA seg :
      With(PartOverlap(part, AlignTemplate(seg, sp.start, sp.end, part.date > r.date)),
           LAMBDA overlap :
      With(TemplateAdds(r, part, seg_list, k + 1), LAMBDA rest :
        IF overlap <= 0 THEN rest
        ELSE << [label |-> DailyLabel(DailyEffType(r, seg), seg), minutes |-> overlap] >>
             \o rest))))

RECURSIVE SumMinutes(_)
SumMinutes(adds) == IF Len(adds) = 0 THEN 0 ELSE Head(adds).minutes + SumMinutes(Tail(adds))

\* remaining = total_part_minutes - minutes_covered, added when positive
UncoveredAdds(part, minutes_covered) ==
    With((part.end - part.start) - minutes_covered, LAMBDA remaining :
        IF remaining > 0 THEN << [label |-> LabelWorkHours, minutes |-> remaining] >>
        ELSE <<>>)

BucketAdds(r, part, seg_list) ==
    With(TemplateAdds(r, part, seg_list, 1), LAMBDA adds :
        adds \o UncoveredAdds(part, SumMinutes(adds)))

RECURSIVE AddBuckets(_, _)
AddBuckets(buckets, adds) ==
    IF Len(adds) = 0 THEN buckets
    ELSE
      With(Head(adds), LAMBDA a :
        AddBuckets(IF a.label \in DOMAIN buckets
                   THEN [buckets EXCEPT ![a.label] = @ + a.minutes]
                   ELSE buckets @@ (a.label :> a.minutes),
                   Tail(adds)))

\* the segments of one part, each carrying its label
RECURSIVE DailyPartSegments(_, _, _, _)
DailyPartSegments(r, part, seg_list, k) ==
    IF k > Len(seg_list) THEN <<>>
    ELSE
      With(span_minutes(r.start_time, r.end_time), LAMBDA sp :
      With(seg_list[k], LAMBDA seg :
      With(AlignTemplate(seg, sp.start, sp.end, part.date > r.date), LAMBDA cur :
      With(DailyEffType(r, seg), LAMBDA eff_type :
      With(DailyPartSegments(r, part, seg_list, k + 1), LAMBDA rest :
        IF PartOverlap(part, cur) <= 0 THEN rest
        ELSE << MakeSegment(r, seg, part, cur, eff_type)
                  @@ [label |-> DailyLabel(eff_type, seg)] >> \o rest)))))

DailyAddToDay(dm, r, part, seg_list) ==
    With(FmtDmy(part.date), LAMBDA day_key :
    With(IF day_key \in DOMAIN dm THEN dm[day_key]
         ELSE [buckets |-> <<>>, shifts |-> {}, segments |-> <<>>, date |-> part.date],
         LAMBDA old :
    With([ buckets |-> AddBuckets(old.buckets, BucketAdds(r, part, seg_list)),
           shifts |-> old.shifts \cup (IF r.shift_name # <<>> THEN {r.shift_name} ELSE {}),
           segments |-> old.segments \o DailyPartSegments(r, part, seg_list, 1),
           date |-> part.date ], LAMBDA new :
        IF day_key \in DOMAIN dm THEN [dm EXCEPT ![day_key] = new]
        ELSE dm @@ (day_key :> new))))

\* the in-month parts of the complete reports, in processing order
RECURSIVE PartsOf(_, _, _, _)
PartsOf(rs, k, y, m) ==
    IF k > Len(rs) THEN <<>>
    ELSE
      With(SelectSeq(IF IsIncomplete(rs[k]) THEN <<>> ELSE ReportParts(rs[k]),
                     LAMBDA p : InMonth(p.date, y, m)), LAMBDA kept :
        [i \in 1..Len(kept) |-> [report |-> k, part |-> kept[i]]]
            \o PartsOf(rs, k + 1, y, m))

\* the report loop of get_daily_segments_data over the in-month parts
RECURSIVE DailyBuildFrom(_, _, _, _, _)
DailyBuildFrom(dm, rs, todo, k, sbs) ==
    IF k > Len(todo) THEN dm
    ELSE
      With(rs[todo[k].report], LAMBDA r :
        DailyBuildFrom(DailyAddToDay(dm, r, todo[k].part, SegList(r, sbs)),
                       rs, todo, k + 1, sbs))

DailyMapOf(rs, sbs, y, m) == DailyBuildFrom(<<>>, rs, PartsOf(rs, 1, y, m), 1, sbs)

\* what each part added to the buckets
PartLogOf(rs, sbs, y, m) ==
    With(PartsOf(rs, 1, y, m), LAMBDA todo :
        [ k \in 1..Len(todo) |->
            [ report |-> todo[k].report, part |-> todo[k].part,
              adds |-> BucketAdds(rs[todo[k].report], todo[k].part,
                                  SegList(rs[todo[k].report], sbs)) ] ])

IsSickSeg(seg) == seg.type = "sick"

IsDailyWorkSeg(seg) == seg.type \notin {"standby", "vacation", "sick"}

\* ratio >= STANDBY_CANCEL_OVERLAP_THRESHOLD, the test that cancels
RatioAtLeastThreshold(total_overlap, duration) ==
    100 * total_overlap >= STANDBY_CANCEL_OVERLAP_PCT * duration

\* the per-day filter: TRUE when the standby segment is cancelled
DailyStandbyCancelled(sb, work) ==
    /\ sb.end - sb.start > 0
    /\ RatioAtLeastThreshold(SumOverlap(sb, work, 1), sb.end - sb.start)

DailyStandbyValid(sb, work) ==
    /\ sb.end - sb.start > 0
    /\ ~DailyStandbyCancelled(sb, work)

DailyIsSpecial(event) == event.type \in {"standby", "vacation", "sick"}

DailyShouldBreak(st, event) ==
    /\ st.chain # <<>>
    /\ \/ DailyIsSpecial(event)
       \/ /\ st.last_end # -1
          /\ event.start - st.last_end > BREAK_THRESHOLD_MINUTES

\* calculate_chain_pay: the five tier counts of a chain (its pay is
\* TierPayX240 of them)
calculate_chain_pay(segments, day_date, cache) ==
    With(ChainWagesFrom(segments, 1, day_date, cache), LAMBDA w :
        [ZeroWages EXCEPT !.calc100 = w.calc100, !.calc125 = w.calc125,
                          !.calc150 = w.calc150, !.calc175 = w.calc175,
                          !.calc200 = w.calc200])

DailyCloseChain(st, day_date, cache) ==
    [st EXCEPT !.wages = AddWages(@, calculate_chain_pay(st.chain, day_date, cache)),
               !.chains = Append(@, st.chain),
               !.chain = <<>>]

\* one iteration of the event loop of the per-day path; special_minutes are
\* the vacation and sick minutes paid at the minimum wage
DailyEventStep(st, event, day_date, cache, rates) ==
    With(IF DailyShouldBreak(st, event) THEN DailyCloseChain(st, day_date, cache)
         ELSE st, LAMBDA st1 :
        IF DailyIsSpecial(event)
        THEN IF event.type = "standby"
             THEN IF ~IsContinuation(event)
                  THEN [st1 EXCEPT !.standby_payment = @ + EventRate(event, rates),
                                   !.paid = Append(@, event),
                                   !.last_end = event.end]
                  ELSE [st1 EXCEPT !.last_end = event.end]
             ELSE [st1 EXCEPT !.vacation_minutes = @ + (event.end - event.start),
                              !.last_end = event.end]
        ELSE [st1 EXCEPT !.chain = Append(@, event), !.last_end = event.end])

RECURSIVE DailyEventLoop(_, _, _, _, _, _)
DailyEventLoop(st, events, k, day_date, cache, rates) ==
    IF k > Len(events) THEN st
    ELSE DailyEventLoop(DailyEventStep(st, events[k], day_date, cache, rates),
                        events, k + 1, day_date, cache, rates)

RECURSIVE SumDurations(_)
SumDurations(segs) ==
    IF Len(segs) = 0 THEN 0 ELSE (Head(segs).end - Head(segs).start) + SumDurations(Tail(segs))

\* the body of the day loop of get_daily_segments_data: the appended dict
DailyProcessEntry(day_key, entry, cache, rates, wage) ==
    With(SortByStart(SelectSeq(entry.segments, IsStandbySeg)), LAMBDA standby_sorted :
    With(SortByStart(SelectSeq(entry.segments, IsVacationSeg)), LAMBDA vacation_segments :
    With(SortByStart(SelectSeq(entry.segments, IsSickSeg)), LAMBDA sick_segments :
    With(Dedup(SortByStart(SelectSeq(entry.segments, IsDailyWorkSeg))),
         LAMBDA work_segments :
    With(SelectSeq(standby_sorted, LAMBDA sb : DailyStandbyCancelled(sb, work_segments)),
         LAMBDA cancelled :
    With(SelectSeq(standby_sorted, LAMBDA sb : DailyStandbyValid(sb, work_segments)),
         LAMBDA standby_segments :
    With(DailyEventLoop(DayStart,
            SortByStart(
                [i \in 1..Len(work_segments) |-> WorkEvent(work_segments[i])]
                \o standby_segments \o vacation_segments \o sick_segments),
            1, entry.date, cache, rates), LAMBDA looped :
    With(IF looped.chain # <<>> THEN DailyCloseChain(looped, entry.date, cache)
         ELSE looped, LAMBDA st :
        [ day |-> day_key,
          date_obj |-> entry.date,
          payment_x240 |-> TierPayX240(st.wages, wage) + 4 * st.vacation_minutes * wage,
          standby_payment |-> st.standby_payment,
          calc100 |-> st.wages.calc100, calc125 |-> st.wages.calc125,
          calc150 |-> st.wages.calc150, calc175 |-> st.wages.calc175,
          calc200 |-> st.wages.calc200,
          shift_names |-> entry.shifts,
          has_work |-> Len(work_segments) > 0,
          total_minutes_no_standby |-> SumDurations(work_segments),
          buckets |-> entry.buckets,
          work_segments |-> work_segments,
          standby_all |-> standby_sorted,
          standby_segments |-> standby_segments,
          cancelled_standbys |-> cancelled,
          paid |-> st.paid,
          chains |-> st.chains ]))))))))

---------------------------------------------------------------------------
(* Monthly aggregator: calculate_person_monthly_totals                     *)

\* shift_has_standby.get(shift_type_id, False)
ShiftHasStandby(sbs, shift_type_id) ==
    /\ shift_type_id \in DOMAIN sbs
    /\ \E i \in 1..Len(sbs[shift_type_id]) : sbs[shift_type_id][i].segment_type = "standby"

\* the count of reports whose shift type has a standby template
StandbyCount(rs, sbs) ==
    Cardinality({i \in 1..Len(rs) :
                    rs[i].shift_type_id # NoneId /\ ShiftHasStandby(sbs, rs[i].shift_type_id)})

RECURSIVE SumComps(_, _, _)
SumComps(comps, k, travel) ==
    IF k > Len(comps) THEN 0
    ELSE (IF (comps[k].component_type_id = 2) = travel THEN comps[k].total_amount ELSE 0)
         + SumComps(comps, k + 1, travel)

\* the dict returned when the month has no report
EmptyMonthlyTotals ==
    [ wages |-> ZeroWages, total_hours |-> 0, standby |-> 0, standby_payment |-> 0,
      vacation_minutes |-> 0, actual_work_days |-> 0, vacation_days_taken |-> 0,
      vacation_payment_x60 |-> 0, travel |-> 0, extras |-> 0,
      sick_num |-> 0, vacation_num |-> 0, annual_quota |-> 0,
      payment_x240 |-> 0, total_payment_x240 |-> 0 ]

\* the dict built after _process_daily_map returned.  Amounts are in agorot;
\* payment_x240 is 240 times the payment, vacation_payment_x60 is 60 times
\* the vacation payment, so that the divisions by 60 stay exact.
MonthlyTotals(t, wd, vd, rs, sbs, comps, pers, wage, y, m) ==
    With(calculate_accruals(Cardinality(wd), pers.start_date, y, m), LAMBDA accruals :
    With(SumComps(comps, 1, TRUE), LAMBDA travel :
    With(SumComps(comps, 1, FALSE), LAMBDA extras :
    With(TierPayX240(t.wages, wage) + 240 * t.standby_payment
         + 4 * t.vacation_minutes * wage, LAMBDA pay_x240 :
        [ wages |-> t.wages, total_hours |-> t.total_hours,
          standby |-> StandbyCount(rs, sbs),
          standby_payment |-> t.standby_payment,
          vacation_minutes |-> t.vacation_minutes,
          actual_work_days |-> Cardinality(wd),
          vacation_days_taken |-> Cardinality(vd),
          vacation_payment_x60 |-> t.vacation_minutes * wage,
          travel |-> travel, extras |-> extras,
          sick_num |-> accruals.sick_num,
          vacation_num |-> accruals.vacation_num,
          annual_quota |-> accruals.annual_quota,
          payment_x240 |-> pay_x240,
          total_payment_x240 |-> pay_x240 + 240 * (travel + extras) ]))))

---------------------------------------------------------------------------
(* Inputs                                                                  *)

HHMM(h, m) == minutes_to_time_str(h * MINUTES_PER_HOUR + m)

Template(id, sh, sm, eh, em, pct, type) ==
    [ id |-> id, start_time |-> HHMM(sh, sm), end_time |-> HHMM(eh, em),
      wage_percent |-> pct, segment_type |-> type ]

\* shift_time_segments, grouped by shift type in order_index order.
\*  1: the night shift 16:00-22:00 work, 22:00-06:30 standby, 06:30-08:00 work
\*  2: a day shift 08:00-16:00
\*  4: a standby-only shift 10:00-11:40
\*  5: a shift whose two templates overlap (12:00-16:00 is in both)
\*  6: a day shift with an hour of standby between its two work templates
\* Shift type 3 has no template.
ShiftTable ==
    (1 :> << Template(11, 16, 0, 22, 0, 100, "work"),
             Template(12, 22, 0, 6, 30, 24, "standby"),
             Template(13, 6, 30, 8, 0, 100, "work") >>)
    @@ (2 :> << Template(21, 8, 0, 16, 0, 100, "work") >>)
    @@ (4 :> << Template(41, 10, 0, 11, 40, 24, "standby") >>)
    @@ (5 :> << Template(51, 8, 0, 16, 0, 100, "work"),
                Template(52, 12, 0, 16, 0, 125, "work") >>)
    @@ (6 :> << Template(61, 8, 0, 12, 0, 100, "work"),
                Template(62, 12, 0, 13, 0, 24, "standby"),
                Template(63, 13, 0, 16, 0, 100, "work") >>)

Report(date, sh, sm, eh, em, shift, name, apt) ==
    [ date |-> date, start_time |-> HHMM(sh, sm), end_time |-> HHMM(eh, em),
      shift_type_id |-> shift, shift_name |-> name, work_type |-> "",
      apartment_type_id |-> apt, is_married |-> FALSE ]

\* 2024-01-05 is a Friday, 2024-01-08 a Monday, 2024-01-31 the last day
ReportSet ==
    { Report(8, 8, 0, 16, 0, 2, <<"day">>, NoneId),
      Report(8, 16, 0, 8, 0, 1, <<"night">>, NoneId),
      Report(8, 8, 0, 17, 0, 2, <<"day">>, NoneId),
      Report(8, 22, 0, 0, 0, 3, <<"extra">>, NoneId),
      Report(8, 10, 0, 11, 40, 4, <<"oncall">>, NoneId),
      Report(8, 10, 0, 11, 10, 3, <<"extra">>, NoneId),
      Report(8, 10, 0, 11, 9, 3, <<"extra">>, NoneId),
      Report(8, 8, 0, 16, 0, 5, <<"mixed">>, NoneId),
      [ Report(8, 10, 0, 11, 40, 3, <<"extra">>, NoneId) EXCEPT !.work_type = "sick_vacation" ],
      Report(8, 6, 0, 18, 0, 3, <<"extra">>, NoneId),
      Report(8, 20, 0, 8, 0, 3, <<"extra">>, NoneId),
      Report(1, 6, 0, 7, 30, 3, <<"extra">>, NoneId),
      Report(5, 12, 0, 20, 0, 3, <<"extra">>, NoneId),
      Report(31, 16, 0, 8, 0, 1, <<"night">>, 7),
      Report(31, 20, 0, 8, 0, 3, <<"extra">>, NoneId),
      Report(9, 8, 0, 16, 0, 2, <<"day", "hufsha">>, NoneId),
      Report(10, 8, 0, 16, 0, 2, <<"day", "mahala">>, NoneId),
      [ Report(8, 16, 0, 8, 0, 1, <<"night">>, NoneId) EXCEPT !.end_time = NoneVal ] }

\* ORDER BY tr.date, tr.start_time (NULL last)
StartKey(r) == IF Falsy(r.start_time) THEN 2 * MINUTES_PER_DAY
               ELSE span_minutes(r.start_time, r.start_time).start

QueryOrdered(rs) ==
    \A i \in 1..(Len(rs) - 1) :
        \/ rs[i].date < rs[i + 1].date
        \/ rs[i].date = rs[i + 1].date /\ StartKey(rs[i]) <= StartKey(rs[i + 1])

ReportLists ==
    { rs \in UNION { [1..n -> ReportSet] : n \in 0..MaxReports } : QueryOrdered(rs) }

\* the shift types of the fetched reports: the IN (...) of the template query
FetchedTemplates(rs) ==
    LET ids == { rs[i].shift_type_id : i \in 1..Len(rs) } \cap DOMAIN ShiftTable
    IN  [ id \in ids |-> ShiftTable[id] ]

EmptyCache == <<>>

\* shabbat_times: the window of Saturday 2024-01-06
GoodCache == FmtYmd(6) :> [enter |-> HHMM(16, 10), exit |-> HHMM(17, 20)]

RateTable ==
    { [segment_id |-> 12, apartment_type_id |-> NoneId, marital_status |-> "single",
       priority |-> 0, amount |-> 5000],
      [segment_id |-> 12, apartment_type_id |-> 7, marital_status |-> "single",
       priority |-> 10, amount |-> 9000],
      [segment_id |-> 12, apartment_type_id |-> NoneId, marital_status |-> "married",
       priority |-> 0, amount |-> 6000] }

Idle == <<>>

\* what every computation starts from
InputsInit ==
    /\ year = 2024
    /\ month = 1
    /\ reports \in ReportLists
    /\ segments_by_shift = FetchedTemplates(reports)
    /\ shabbat_cache \in {EmptyCache, GoodCache}
    /\ standby_rates = RateTable
    /\ standby_rates_cache = Idle
    /\ person = [start_date |-> [kind |-> "datetime", day |-> 0 - 800]]
    /\ payment_comps = << [total_amount |-> 12000, component_type_id |-> 2],
                          [total_amount |-> 5000, component_type_id |-> 1] >>
    /\ minimum_wage = 3440

DerivedInit ==
    /\ daily_map = <<>>
    /\ day_queue = <<>>
    /\ day_log = <<>>
    /\ totals = ZeroTotals
    /\ work_days_set = {}
    /\ vacation_days_set = {}
    /\ monthly_totals = Idle
    /\ daily_segments = <<>>
    /\ part_log = <<>>
    /\ returned = <<>>

PureIdle ==
    /\ fn_args = Idle
    /\ fn_ret = Idle
    /\ chain_pos = Idle
    /\ chain_res = Idle

Init == pc = "start" /\ InputsInit /\ DerivedInit /\ PureIdle

inputs == <<year, month, reports, segments_by_shift, shabbat_cache, standby_rates,
            standby_rates_cache,
            person, payment_comps, minimum_wage>>

pure == <<fn_args, fn_ret, chain_pos, chain_res>>

\* get_standby_rate_from_db: the lookup that queries the table
get_standby_rate_from_db == [preloaded |-> FALSE, rows |-> standby_rates, cache |-> Idle]

\* the lookup handed to _process_daily_map: get_standby_rate_from_db in
\* calculate_person_monthly_totals, the cache lookup in
\* _calculate_totals_from_data
get_standby_rate_fn ==
    IF standby_rates_cache = Idle THEN get_standby_rate_from_db
    ELSE [preloaded |-> TRUE, rows |-> {}, cache |-> standby_rates_cache]

\* calculate_person_monthly_totals: no report in the month
ReturnEmpty ==
    /\ pc = "start"
    /\ reports = <<>>
    /\ monthly_totals' = EmptyMonthlyTotals
    /\ pc' = "done"
    /\ UNCHANGED <<inputs, pure, returned, daily_map, day_queue, day_log, totals, work_days_set,
                   vacation_days_set, daily_segments, part_log>>

\* the call of _build_daily_map and the start of _process_daily_map
BuildDailyMap ==
    /\ pc = "start"
    /\ reports # <<>>
    /\ daily_map' = _build_daily_map(reports, segments_by_shift, year, month)
    /\ day_queue' = SortedKeys(DOMAIN daily_map')
    /\ pc' = "process"
    /\ UNCHANGED <<inputs, pure, returned, day_log, totals, work_days_set, vacation_days_set,
                   monthly_totals, daily_segments, part_log>>

\* one iteration of the day loop of _process_daily_map
ProcessDay ==
    /\ pc = "process"
    /\ day_queue # <<>>
    /\ day_log' = Append(day_log, ProcessEntry(daily_map[Head(day_queue)],
                                               shabbat_cache, get_standby_rate_fn))
    /\ LET day == day_log'[Len(day_log')]
       IN  /\ totals' = AddDayTotals(totals, day)
           /\ work_days_set' = work_days_set
                  \cup WorkDaysOf(day.work_segments, day.date, year, month)
           /\ vacation_days_set' = IF day.vacation_segments # <<>>
                                   THEN vacation_days_set \cup {day.date}
                                   ELSE vacation_days_set
    /\ day_queue' = Tail(day_queue)
    /\ UNCHANGED <<pc, inputs, pure, returned, daily_map, monthly_totals, daily_segments, part_log>>

\* the query of get_standby_rate raises during the day loop: nothing
\* catches it, and it leaves _process_daily_map and the monthly computation
ProcessDayRaises ==
    /\ pc = "process"
    /\ day_queue # <<>>
    /\ DrawsRate(daily_map[Head(day_queue)])
    /\ pc' = "raised"
    /\ UNCHANGED <<inputs, pure, returned, daily_map, day_queue, day_log, totals, work_days_set,
                   vacation_days_set, monthly_totals, daily_segments, part_log>>

\* _process_daily_map returned: payment components, accruals and final pay
Finish ==
    /\ pc = "process"
    /\ day_queue = <<>>
    /\ monthly_totals' = MonthlyTotals(totals, work_days_set, vacation_days_set, reports,
                                       segments_by_shift, payment_comps, person,
                                       minimum_wage, year, month)
    /\ pc' = "done"
    /\ UNCHANGED <<inputs, pure, returned, daily_map, day_queue, day_log, totals, work_days_set,
                   vacation_days_set, daily_segments, part_log>>

Next == ReturnEmpty \/ BuildDailyMap \/ ProcessDay \/ ProcessDayRaises \/ Finish

Spec == Init /\ [][Next]_vars

---------------------------------------------------------------------------
(* get_daily_segments_data as a computation                                *)

InitDaily == pc = "daily_start" /\ InputsInit /\ DerivedInit /\ PureIdle

\* the report loop: daily_map with its buckets
DailyBuild ==
    /\ pc = "daily_start"
    /\ daily_map' = DailyMapOf(reports, segments_by_shift, year, month)
    /\ part_log' = PartLogOf(reports, segments_by_shift, year, month)
    /\ day_queue' = SortedKeys(DOMAIN daily_map')
    /\ pc' = "daily_process"
    /\ UNCHANGED <<inputs, pure, returned, day_log, totals, work_days_set, vacation_days_set,
                   monthly_totals, daily_segments>>

\* one iteration of `for day, entry in sorted(daily_map.items())`
DailyProcessDay ==
    /\ pc = "daily_process"
    /\ day_queue # <<>>
    /\ daily_segments' = Append(daily_segments,
            DailyProcessEntry(Head(day_queue), daily_map[Head(day_queue)],
                              shabbat_cache, standby_rates, minimum_wage))
    /\ day_queue' = Tail(day_queue)
    /\ UNCHANGED <<pc, inputs, pure, returned, daily_map, day_log, totals, work_days_set,
                   vacation_days_set, monthly_totals, part_log>>

\* return daily_segments
DailyReturn ==
    /\ pc = "daily_process"
    /\ day_queue = <<>>
    /\ pc' = "daily_done"
    /\ UNCHANGED <<inputs, pure, returned, daily_map, day_queue, day_log, totals, work_days_set,
                   vacation_days_set, monthly_totals, daily_segments, part_log>>

NextDaily == DailyBuild \/ DailyProcessDay \/ DailyReturn

SpecDaily == InitDaily /\ [][NextDaily]_vars

---------------------------------------------------------------------------
(* _calculate_chain_wages, one minute at a time                            *)

\* the inputs of the computations that read no report
QuietInputs ==
    /\ year = 2024
    /\ month = 1
    /\ reports = <<>>
    /\ segments_by_shift = <<>>
    /\ shabbat_cache = EmptyCache
    /\ standby_rates = RateTable
    /\ standby_rates_cache = Idle
    /\ person = [start_date |-> [kind |-> "none", day |-> 0]]
    /\ payment_comps = <<>>
    /\ minimum_wage = 3440

ChainSeg(start, end) == [start |-> start, end |-> end, shift_id |-> 3]

\* chains as close_chain hands them over: 12 hours on a Monday in one and in
\* two segments, a Friday chain across the entry of Shabbat, a Friday chain
\* past both limits before the entry of Shabbat, a Saturday chain across its
\* exit, a Thursday-dated chain whose minutes lie on the Friday after it
\* (offsets 2395 to 2415: 15:55 to 16:15), and the empty list
ChainCases ==
    { [chain_segments |-> << ChainSeg(480, 1200) >>, day_date |-> 8],
      [chain_segments |-> << ChainSeg(360, 720), ChainSeg(740, 1100) >>, day_date |-> 8],
      [chain_segments |-> << ChainSeg(600, 1300) >>, day_date |-> 5],
      [chain_segments |-> << ChainSeg(300, 1100) >>, day_date |-> 5],
      [chain_segments |-> << ChainSeg(400, 900), ChainSeg(900, 1100) >>, day_date |-> 6],
      [chain_segments |-> << ChainSeg(2395, 2415) >>, day_date |-> 4],
      [chain_segments |-> << >>, day_date |-> 8] }

InitChain ==
    /\ pc = "chain_start"
    /\ QuietInputs
    /\ DerivedInit
    /\ \E c \in ChainCases, cache \in {EmptyCache, GoodCache} :
          fn_args = [chain_segments |-> c.chain_segments, day_date |-> c.day_date,
                     shabbat_cache |-> cache]
    /\ fn_ret = Idle
    /\ chain_pos = Idle
    /\ chain_res = ZeroWages

derived == <<daily_map, day_queue, day_log, totals, work_days_set, vacation_days_set,
             monthly_totals, daily_segments, part_log, returned>>

\* if not chain_segments: return result
ChainReturnEmpty ==
    /\ pc = "chain_start"
    /\ fn_args.chain_segments = <<>>
    /\ fn_ret' = chain_res
    /\ pc' = "chain_done"
    /\ UNCHANGED <<inputs, derived, fn_args, chain_pos, chain_res>>

\* minutes_counter = 0 and the entry of the outer loop
ChainEnter ==
    /\ pc = "chain_start"
    /\ fn_args.chain_segments # <<>>
    /\ chain_pos' = [k |-> 1, m |-> 0, minutes_counter |-> 0]
    /\ pc' = "chain_loop"
    /\ UNCHANGED <<inputs, derived, fn_args, fn_ret, chain_res>>

\* one iteration of `for m in range(seg_end - seg_start)`
ChainMinute ==
    /\ pc = "chain_loop"
    /\ chain_pos.k <= Len(fn_args.chain_segments)
    /\ LET seg == fn_args.chain_segments[chain_pos.k]
           minutes_counter == chain_pos.minutes_counter + 1
           minute_abs == seg.start + chain_pos.m
           c == ClassifyMinute(minutes_counter, minute_abs, seg.shift_id,
                               fn_args.day_date, fn_args.shabbat_cache)
       IN  /\ chain_pos.m < seg.end - seg.start
           /\ chain_pos' = [chain_pos EXCEPT !.m = @ + 1,
                                             !.minutes_counter = minutes_counter]
           /\ chain_res' = AddWages(chain_res, WagesOfMinute(c))
    /\ UNCHANGED <<pc, inputs, derived, fn_args, fn_ret>>

\* the inner range is exhausted: the next segment of the chain
ChainNextSegment ==
    /\ pc = "chain_loop"
    /\ chain_pos.k <= Len(fn_args.chain_segments)
    /\ LET seg == fn_args.chain_segments[chain_pos.k]
       IN  chain_pos.m >= seg.end - seg.start
    /\ chain_pos' = [chain_pos EXCEPT !.k = @ + 1, !.m = 0]
    /\ UNCHANGED <<pc, inputs, derived, fn_args, fn_ret, chain_res>>

\* return result
ChainReturn ==
    /\ pc = "chain_loop"
    /\ chain_pos.k > Len(fn_args.chain_segments)
    /\ fn_ret' = chain_res
    /\ pc' = "chain_done"
    /\ UNCHANGED <<inputs, derived, fn_args, chain_pos, chain_res>>

NextChain == ChainReturnEmpty \/ ChainEnter \/ ChainMinute \/ ChainNextSegment \/ ChainReturn

SpecChain == InitChain /\ [][NextChain]_vars

---------------------------------------------------------------------------
(* is_shabbat_time and calculate_accruals as calls                         *)

MaxWorkDays == 23

Window(enter, exit) == [enter |-> enter, exit |-> exit]

\* shabbat_times caches, all about Saturday 2024-01-06.  kind tells what
\* the row is: "good" carries its two minutes, the others say what is wrong
CacheCases ==
    { [kind |-> "good", enter_minutes |-> 970, exit_minutes |-> 1040,
       cache |-> FmtYmd(6) :> Window(HHMM(16, 10), HHMM(17, 20))],
      [kind |-> "good", enter_minutes |-> 1020, exit_minutes |-> 1290,
       cache |-> FmtYmd(6) :> Window(HHMM(17, 0), HHMM(21, 30))],
      [kind |-> "missing", enter_minutes |-> 0, exit_minutes |-> 0,
       cache |-> EmptyCache],
      [kind |-> "missing", enter_minutes |-> 0, exit_minutes |-> 0,
       cache |-> FmtYmd(6) :> <<>>],
      [kind |-> "malformed", enter_minutes |-> 0, exit_minutes |-> 0,
       cache |-> FmtYmd(6) :> Window(<<"1", "6", "1", "0">>, HHMM(17, 20))],
      [kind |-> "malformed", enter_minutes |-> 0, exit_minutes |-> 0,
       cache |-> FmtYmd(6) :> Window(HHMM(16, 10), <<"1", "7", ":", "2", "x">>)],
      [kind |-> "malformed", enter_minutes |-> 0, exit_minutes |-> 0,
       cache |-> FmtYmd(6) :> Window(HHMM(16, 10) \o <<":", "0", "0">>, HHMM(17, 20))],
      [kind |-> "malformed", enter_minutes |-> 0, exit_minutes |-> 0,
       cache |-> FmtYmd(6) :> Window(NoneVal, HHMM(17, 20))],
      [kind |-> "malformed", enter_minutes |-> 0, exit_minutes |-> 0,
       cache |-> FmtYmd(6) :> [enter |-> HHMM(16, 10)]] }

\* minutes around the default and the stored candle-lighting and havdalah
ShabbatMinutes == {0, 959, 960, 969, 970, 1019, 1020, 1039, 1040, 1289, 1290, 1319, 1320, 1439}

\* Friday 2024-01-05 and Saturday 2024-01-06
ShabbatDates == {5, 6}

IsShabbatCalls ==
    { [fn |-> "is_shabbat_time", day_of_week |-> w, minute_in_day |-> t, shift_id |-> 3,
       current_date |-> d, shabbat_cache |-> c.cache]
      : w \in 0..6, t \in ShabbatMinutes, d \in ShabbatDates, c \in CacheCases }

\* people.start_date: absent, a timestamp 801, 2001 or 101 days before
\* 2024-01-01, one after it, epoch seconds, and a plain date
StartDates ==
    { [kind |-> "none", day |-> 0],
      [kind |-> "datetime", day |-> 0 - 800],
      [kind |-> "datetime", day |-> 0 - 2000],
      [kind |-> "datetime", day |-> 20],
      [kind |-> "epoch", day |-> 0 - 100],
      [kind |-> "date", day |-> 0 - 800] }

AccrualCalls ==
    { [fn |-> "calculate_accruals", actual_work_days |-> n, start_date |-> sd,
       report_year |-> 2024, report_month |-> 1]
      : n \in 0..MaxWorkDays, sd \in StartDates }

RateRow(segment_id, apartment_type_id, marital_status, priority, amount) ==
    [segment_id |-> segment_id, apartment_type_id |-> apartment_type_id,
     marital_status |-> marital_status, priority |-> priority, amount |-> amount]

\* standby_rates tables: the one of the monthly computations, one with the
\* apartment rate only, one with only a married general rate, one whose rows
\* match no query of a single person (a priority-0 row with an apartment, a
\* priority-10 row without one, the married rows), and the empty table
RateTables ==
    { RateTable,
      { RateRow(12, 7, "single", 10, 9000) },
      { RateRow(12, NoneId, "married", 0, 6000) },
      { RateRow(12, 7, "single", 0, 1100), RateRow(12, NoneId, "single", 10, 2200),
        RateRow(12, 7, "married", 10, 3300), RateRow(12, NoneId, "married", 0, 4400),
        RateRow(13, NoneId, "single", 0, 5500) },
      {} }

StandbyRateCalls ==
    { [fn |-> "get_standby_rate", rates |-> t, segment_id |-> s,
       apartment_type_id |-> a, is_married |-> b]
      : t \in RateTables, s \in {12, 13}, a \in {NoneId, 7, 8}, b \in BOOLEAN }

InitPure ==
    /\ pc = "pure_start"
    /\ QuietInputs
    /\ DerivedInit
    /\ fn_args \in IsShabbatCalls \cup AccrualCalls \cup StandbyRateCalls
    /\ fn_ret = Idle
    /\ chain_pos = Idle
    /\ chain_res = Idle

CallIsShabbatTime ==
    /\ pc = "pure_start"
    /\ fn_args.fn = "is_shabbat_time"
    /\ fn_ret' = is_shabbat_time(fn_args.day_of_week, fn_args.minute_in_day,
                                 fn_args.shift_id, fn_args.current_date,
                                 fn_args.shabbat_cache)
    /\ pc' = "pure_done"
    /\ UNCHANGED <<inputs, derived, fn_args, chain_pos, chain_res>>

CallCalculateAccruals ==
    /\ pc = "pure_start"
    /\ fn_args.fn = "calculate_accruals"
    /\ fn_ret' = calculate_accruals(fn_args.actual_work_days, fn_args.start_date,
                                    fn_args.report_year, fn_args.report_month)
    /\ pc' = "pure_done"
    /\ UNCHANGED <<inputs, derived, fn_args, chain_pos, chain_res>>

CallGetStandbyRate ==
    /\ pc = "pure_start"
    /\ fn_args.fn = "get_standby_rate"
    /\ fn_ret' = get_standby_rate(fn_args.rates, fn_args.segment_id,
                                  fn_args.apartment_type_id, fn_args.is_married)
    /\ pc' = "pure_done"
    /\ UNCHANGED <<inputs, derived, fn_args, chain_pos, chain_res>>

NextPure == CallIsShabbatTime \/ CallCalculateAccruals \/ CallGetStandbyRate

SpecPure == InitPure /\ [][NextPure]_vars

---------------------------------------------------------------------------
(* Coverage of the reported minutes                                        *)

PartDuration(part) == part.end - part.start

\* C1: in get_daily_segments_data every report part inside the month adds to
\* the buckets of its day (template overlaps plus uncovered remainder)
\* exactly as many minutes as the part lasts.
C1_CoverageInvariant ==
    \A k \in DOMAIN part_log :
        SumMinutes(part_log[k].adds) = PartDuration(part_log[k].part)

\* the minute t of the day lies in one of the segments
MinuteInSegments(segs, t) == \E i \in 1..Len(segs) : segs[i].start <= t /\ t < segs[i].end

\* the parts of the reports whose minutes the monthly daily_map lost
UncoveredParts ==
    LET todo == PartsOf(reports, 1, year, month)
    IN  { k \in 1..Len(todo) :
            LET part == todo[k].part
                day_key == FmtDmy(part.date)
            IN  \/ day_key \notin DOMAIN daily_map
                \/ \E t \in part.start..(part.end - 1) :
                      ~MinuteInSegments(daily_map[day_key].segments, t) }

\* C2: in the monthly computation every reported minute inside the month is
\* in a work, standby or vacation segment of its day (minutes no template
\* covers being work), and the tier totals count all the work minutes.
C2_UncoveredBecomesWork ==
    pc \in {"process", "done"} => UncoveredParts = {}

---------------------------------------------------------------------------
(* Standby cancellation in both paths                                      *)

SameSpan(a, b) == a.start = b.start /\ a.end = b.end

InSeq(x, seq) == \E i \in 1..Len(seq) : SameSpan(seq[i], x) /\ seq[i].segment_id = x.segment_id

\* what _process_daily_map makes of the day the per-day path reports as d
MonthlyDay(d) ==
    ProcessEntry(_build_daily_map(reports, segments_by_shift, year, month)[d.day],
                 shabbat_cache, get_standby_rate_from_db)

\* the 70% rule as stated: cancelled iff overlap_sum / duration >= 0.70
CancelledByRule(sb, work) == 10 * SumOverlap(sb, work, 1) >= 7 * (sb.end - sb.start)

\* within a path, a standby segment of positive duration survives iff the
\* rule does not cancel it
ThresholdRespected(standby_all, kept, work) ==
    \A i \in 1..Len(standby_all) :
        standby_all[i].end - standby_all[i].start > 0
            => (InSeq(standby_all[i], kept) <=> ~CancelledByRule(standby_all[i], work))

\* C3: a standby segment is cancelled iff its overlap with the day's
\* deduplicated work is at least 70% of its duration, and the monthly path
\* and the per-day path keep and cancel the same standby segments.
C3_SameCancelDecision ==
    pc = "daily_done" =>
        \A n \in DOMAIN daily_segments :
            LET d == daily_segments[n]
                mon == MonthlyDay(d)
            IN  /\ ThresholdRespected(d.standby_all, d.standby_segments, d.work_segments)
                /\ ThresholdRespected(mon.standby_all, mon.standby_segments,
                                      mon.work_segments)
                /\ \A i \in 1..Len(d.standby_all) :
                      InSeq(d.standby_all[i], d.standby_segments)
                          <=> InSeq(d.standby_all[i], mon.standby_segments)

---------------------------------------------------------------------------
(* The minute index of a chain                                             *)

\* the tier table as the rules state it
TierOf(n, shabbat) ==
    IF n <= 480 THEN (IF shabbat THEN "calc150" ELSE "calc100")
    ELSE IF n <= 600 THEN (IF shabbat THEN "calc175" ELSE "calc125")
    ELSE (IF shabbat THEN "calc200" ELSE "calc150")

TierKeys == {"calc100", "calc125", "calc150", "calc175", "calc200"}

\* the minute the loop is about to classify: (weekday, minute of the day)
\* and whether Shabbat holds then
NextMinuteIsShabbat ==
    LET seg == fn_args.chain_segments[chain_pos.k]
        minute_abs == seg.start + chain_pos.m
    IN  is_shabbat_time(EffWeekday(fn_args.day_date, minute_abs),
                        minute_abs % MINUTES_PER_DAY, seg.shift_id,
                        fn_args.day_date, fn_args.shabbat_cache).value

\* a step of the minute loop: the index grows by one and exactly the
\* counter of the tier of (index, Shabbat) grows by one
MinuteStepOk ==
    /\ chain_pos'.minutes_counter = chain_pos.minutes_counter + 1
    /\ \A key \in TierKeys :
          chain_res'[key] =
              IF key = TierOf(chain_pos'.minutes_counter, NextMinuteIsShabbat)
              THEN chain_res[key] + 1 ELSE chain_res[key]

\* what a step of the computation must satisfy
ChainStepOk ==
    /\ (pc = "chain_start" /\ pc' = "chain_loop") => chain_pos'.minutes_counter = 0
    /\ (pc = "chain_loop" /\ pc' = "chain_loop") =>
          IF chain_pos'.k = chain_pos.k /\ chain_pos'.m = chain_pos.m + 1
          THEN MinuteStepOk
          ELSE /\ chain_pos'.minutes_counter = chain_pos.minutes_counter
               /\ chain_res' = chain_res
    /\ (pc = "chain_loop" /\ pc' = "chain_done") =>
          /\ fn_ret' = chain_res
          /\ chain_pos.minutes_counter =
                MinutesBefore(fn_args.chain_segments, Len(fn_args.chain_segments) + 1)
          /\ chain_res.calc100 + chain_res.calc125 + chain_res.calc150
                + chain_res.calc175 + chain_res.calc200 = chain_pos.minutes_counter

\* C4: in _calculate_chain_wages the minute index starts at 1, grows by one
\* per minute over all the segments of the chain in order, the n-th minute
\* gets the tier of (n, Shabbat) - 100/125/150% by the limits 480 and 600,
\* 150/175/200% on Shabbat - and each minute increments exactly one of
\* calc100, calc125, calc150, calc175, calc200.
C4_MinuteIndexAndTiers == [][ChainStepOk]_vars

\* a Shabbat chain past both limits: in its second segment, minute 601 just
\* counted at 200%
C4_Witness ==
    /\ pc = "chain_loop"
    /\ chain_pos.k = 2
    /\ chain_pos.minutes_counter = 601
    /\ chain_res.calc150 = 480
    /\ chain_res.calc175 = 120
    /\ chain_res.calc200 = 1

---------------------------------------------------------------------------
(* Standby payment                                                         *)

StartsAfterMidnight(event) == event.start # 0

RECURSIVE SumRates(_)
SumRates(events) ==
    IF Len(events) = 0 THEN 0
    ELSE get_standby_rate(standby_rates, Head(events).segment_id,
                          Head(events).apartment_type_id, Head(events).is_married)
         + SumRates(Tail(events))

\* C5: in _process_daily_map every surviving standby event whose start is
\* not minute 0 adds its resolved rate to the standby payment exactly once,
\* and a standby event that starts at minute 0 adds nothing.
C5_StandbyRateOnce ==
    \A i \in DOMAIN day_log :
        LET due == SelectSeq(day_log[i].standby_segments, StartsAfterMidnight)
        IN  /\ day_log[i].paid = due
            /\ day_log[i].day_standby_payment = SumRates(due)

\* a month with a paid standby on one day and its unpaid continuation from
\* minute 0 on the next
C5_Witness ==
    /\ pc = "done"
    /\ \E i, j \in DOMAIN day_log :
          /\ day_log[j].date = day_log[i].date + 1
          /\ day_log[i].day_standby_payment > 0
          /\ day_log[j].day_standby_payment = 0
          /\ \E k \in DOMAIN day_log[j].standby_segments :
                day_log[j].standby_segments[k].start = 0
    /\ totals.standby_payment > 0

\* C6: a surviving standby event that starts at minute 0 and adds nothing
\* continues a standby paid on the previous calendar day in the same
\* computation: that day has a surviving standby segment ending at minute
\* 1440 for which the rate was added.
C6_ContinuationWasPaid ==
    \A i \in DOMAIN day_log :
        \A k \in DOMAIN day_log[i].standby_segments :
            day_log[i].standby_segments[k].start = 0 =>
                \E j \in DOMAIN day_log :
                    /\ day_log[j].date = day_log[i].date - 1
                    /\ \E n \in DOMAIN day_log[j].paid :
                          day_log[j].paid[n].end = MINUTES_PER_DAY

---------------------------------------------------------------------------
(* Scenario B: the night shift of Monday 2024-01-08                        *)

ScenarioB == << Report(8, 16, 0, 8, 0, 1, <<"night">>, NoneId) >>

ScenarioBDone == pc = "done" /\ reports = ScenarioB

\* the 06:30-08:00 slice is a work segment of Tuesday 2024-01-09
MorningSliceNextDay ==
    /\ FmtDmy(9) \in DOMAIN daily_map
    /\ \E i \in DOMAIN daily_map[FmtDmy(9)].segments :
          LET seg == daily_map[FmtDmy(9)].segments[i]
          IN  seg.start = 390 /\ seg.end = 480 /\ seg.type = "work"
    /\ \A i \in DOMAIN daily_map[FmtDmy(8)].segments :
          daily_map[FmtDmy(8)].segments[i].start >= 960

RECURSIVE PaidCount(_)
PaidCount(log) == IF Len(log) = 0 THEN 0 ELSE Len(Head(log).paid) + PaidCount(Tail(log))

\* one standby payment for the 22:00-06:30 span
OneStandbyPayment ==
    /\ PaidCount(day_log) = 1
    /\ totals.standby_payment = get_standby_rate(standby_rates, 12, NoneId, FALSE)
    /\ monthly_totals.standby_payment = totals.standby_payment

\* C7 as stated: the slice moves to the next date, the work is 570 minutes
\* split over the 100% and 125% tiers at the 480-minute limit, and there is
\* one standby payment.
C7_ScenarioB_AsStated ==
    ScenarioBDone =>
        /\ MorningSliceNextDay
        /\ totals.total_hours = 570
        /\ totals.wages.calc100 = 480
        /\ totals.wages.calc125 = 90
        /\ OneStandbyPayment

\* C7: the slice moves to the next date, the work is 360 + 90 = 450 minutes,
\* all of them at 100% (two chains, neither reaching 480 minutes), and there
\* is one standby payment, made on Monday.
C7_ScenarioB ==
    ScenarioBDone =>
        /\ MorningSliceNextDay
        /\ totals.total_hours = 450
        /\ totals.wages = [ZeroWages EXCEPT !.calc100 = 450]
        /\ day_log[1].date = 8 /\ day_log[1].day_wages.calc100 = 360
        /\ day_log[2].date = 9 /\ day_log[2].day_wages.calc100 = 90
        /\ OneStandbyPayment
        /\ day_log[1].day_standby_payment = totals.standby_payment

C7_Witness == ScenarioBDone /\ Len(day_log) = 2 /\ monthly_totals.wages.calc100 = 450

---------------------------------------------------------------------------
(* Scenario E: accrual with 21 work days in the 3rd year                   *)

ScenarioEReturned ==
    /\ pc = "pure_done"
    /\ fn_args.fn = "calculate_accruals"
    /\ fn_args.actual_work_days = 21
    /\ fn_ret.seniority = 3

\* job_scope = min(21 / 21.66, 1)
ScenarioEJobScope == fn_ret.job_scope_num = 2100 /\ fn_ret.job_scope_den = 2166

\* vacation_days_accrued = (quota / 12) * job_scope, as a fraction
VacationIs(quota) ==
    12 * fn_ret.job_scope_den * fn_ret.vacation_num
        = quota * fn_ret.job_scope_num * fn_ret.vacation_den

\* C8 as stated: 21 work days in the 3rd year use the 5-day table, the
\* annual quota is 12 and the accrual is (12/12) * job_scope.
C8_ScenarioE_AsStated ==
    ScenarioEReturned =>
        /\ ~fn_ret.is_6_day_week
        /\ fn_ret.annual_quota = 12
        /\ ScenarioEJobScope
        /\ VacationIs(12)

\* C8: 21 work days are more than 20, so the 6-day table is used: in the
\* 3rd year the annual quota is 14 and the accrual is (14/12) * job_scope
\* with job_scope = min(21/21.66, 1).
C8_ScenarioE ==
    ScenarioEReturned =>
        /\ fn_ret.is_6_day_week
        /\ fn_ret.annual_quota = 14
        /\ ScenarioEJobScope
        /\ VacationIs(14)

C8_Witness == ScenarioEReturned /\ fn_args.start_date = [kind |-> "datetime", day |-> 0 - 800]

---------------------------------------------------------------------------
(* Shabbat membership of a minute                                          *)

ShabbatReturned == pc = "pure_done" /\ fn_args.fn = "is_shabbat_time"

\* the Saturday date whose window the call is about
ConsultedSaturday ==
    IF fn_args.day_of_week = 4 THEN fn_args.current_date + 1 ELSE fn_args.current_date

\* the rows of CacheCases the call's cache is
CasesOfCall == { c \in CacheCases : c.cache = fn_args.shabbat_cache }

WindowStored == FmtYmd(ConsultedSaturday) \in DOMAIN fn_args.shabbat_cache

DefaultAnswer ==
    \/ fn_args.day_of_week = 4 /\ fn_args.minute_in_day >= 960
    \/ fn_args.day_of_week = 5 /\ fn_args.minute_in_day < 1320

\* C10: is_shabbat_time never raises; when the window of the Saturday is
\* missing or one of its time strings is malformed, the answer is the one
\* of the defaults, Friday from 16:00 and Saturday before 22:00.
C10_ShabbatFallback ==
    ShabbatReturned =>
        /\ fn_ret.raised = ""
        /\ \A c \in CasesOfCall :
              (c.kind \in {"missing", "malformed"} \/ ~WindowStored) =>
                  (fn_ret.value <=> DefaultAnswer)

\* Saturday 21:59 with a stored window whose candle-lighting time is None
C10_Witness ==
    /\ ShabbatReturned
    /\ fn_args.day_of_week = 5
    /\ fn_args.current_date = 6
    /\ fn_args.minute_in_day = 1319
    /\ fn_args.shabbat_cache = FmtYmd(6) :> Window(NoneVal, HHMM(17, 20))
    /\ fn_ret.value = TRUE

---------------------------------------------------------------------------
(* Scenario C: a Friday chain and the default entry of Shabbat             *)

\* the minutes the loop has classified so far, each with its chain index n
\* and its minute of the day t
ClassifiedMinutes ==
    { [n |-> MinutesBefore(fn_args.chain_segments, j) + i + 1,
       t |-> fn_args.chain_segments[j].start + i]
      : <<j, i>> \in
          { q \in (1..Len(fn_args.chain_segments)) \X (0..(MINUTES_PER_DAY - 1)) :
              /\ q[2] < fn_args.chain_segments[q[1]].end
                            - fn_args.chain_segments[q[1]].start
              /\ \/ q[1] < chain_pos.k
                 \/ q[1] = chain_pos.k /\ q[2] < chain_pos.m } }

\* the tier the scenario states for index n at minute t of a Friday
FridayTier(n, t) ==
    IF t < 16 * 60
    THEN (IF n <= 480 THEN "calc100" ELSE IF n <= 600 THEN "calc125" ELSE "calc150")
    ELSE (IF n <= 480 THEN "calc150" ELSE IF n <= 600 THEN "calc175" ELSE "calc200")

FridayChainNoWindow ==
    /\ pc \in {"chain_loop", "chain_done"}
    /\ fn_args.chain_segments # <<>>
    /\ Weekday(fn_args.day_date) = FRIDAY
    /\ fn_args.shabbat_cache = EmptyCache

\* C11: for a Friday work chain with no Shabbat window entry, every minute
\* before 16:00 is counted in the non-Shabbat tier of its chain index
\* (100/125/150%) and every minute at or after 16:00 in the Shabbat tier of
\* its chain index (150/175/200%).
C11_ScenarioC ==
    FridayChainNoWindow =>
        \A key \in TierKeys :
            chain_res[key] =
                Cardinality({p \in ClassifiedMinutes : FridayTier(p.n, p.t) = key})

\* the Friday chain 05:00-18:20 returned: 480 minutes at 100%, 120 at 125%,
\* 60 of overtime at 150% before 16:00 and 140 at 200% after it
C11_Witness ==
    /\ FridayChainNoWindow
    /\ pc = "chain_done"
    /\ fn_ret.calc100 = 480
    /\ fn_ret.calc125 = 120
    /\ fn_ret.calc150 = 60
    /\ fn_ret.calc175 = 0
    /\ fn_ret.calc200 = 140

---------------------------------------------------------------------------
(* The standby rate resolver                                               *)

RateReturned == pc = "pure_done" /\ fn_args.fn = "get_standby_rate"

\* the rows of the called table for the called segment and marital status
\* with the given apartment type and priority
MatchingRows(apartment_type_id, priority) ==
    { row \in fn_args.rates :
        /\ row.segment_id = fn_args.segment_id
        /\ row.apartment_type_id = apartment_type_id
        /\ row.marital_status = (IF fn_args.is_married THEN "married" ELSE "single")
        /\ row.priority = priority }

SpecificRows ==
    IF fn_args.apartment_type_id = NoneId THEN {}
    ELSE MatchingRows(fn_args.apartment_type_id, 10)

\* C12: get_standby_rate returns the amount of the priority-10 row of the
\* segment, apartment type and marital status when the apartment type is
\* not null and such a row exists; otherwise the amount of the priority-0
\* row with null apartment type and the same marital status; otherwise the
\* default 70.0.
C12_StandbyRateResolution ==
    RateReturned =>
        IF SpecificRows # {} THEN fn_ret \in { row.amount : row \in SpecificRows }
        ELSE IF MatchingRows(NoneId, 0) # {}
        THEN fn_ret \in { row.amount : row \in MatchingRows(NoneId, 0) }
        ELSE fn_ret = 7000

\* a call for which both a priority-10 and a priority-0 row match, and the
\* table also holds a row of the other marital status: the priority-10
\* amount came back
C12_Witness ==
    /\ RateReturned
    /\ SpecificRows # {}
    /\ MatchingRows(NoneId, 0) # {}
    /\ \E row \in fn_args.rates : row.marital_status = "married"
    /\ ~fn_args.is_married
    /\ fn_ret = 9000

---------------------------------------------------------------------------
(* Work days                                                               *)

\* the dates of the requested month
MonthDates == { d \in (0 - 30)..60 : YearOf(d) = year /\ MonthOf(d) = month }

\* the dates the 08:00 rule counts for the deduplicated work segments of
\* the processed days
CountedDates ==
    { d \in (0 - 30)..60 :
        \E i \in DOMAIN day_log : \E j \in DOMAIN day_log[i].work_segments :
            \/ /\ d = day_log[i].date
               /\ \/ day_log[i].work_segments[j].start >= 8 * 60
                  \/ day_log[i].work_segments[j].end > 8 * 60
            \/ /\ d = day_log[i].date - 1
               /\ day_log[i].work_segments[j].start < 8 * 60
               /\ day_log[i].work_segments[j].end <= 8 * 60
               /\ d \in MonthDates }

\* C13: actual_work_days is the number of dates counted by the 08:00 rule
\* over the deduplicated work segments of the days (the day itself for a
\* segment at or across 08:00, the previous day for a segment entirely
\* before 08:00 when that day is in the month); every counted date is in
\* the requested month.
C13_WorkDays ==
    pc = "done" =>
        /\ monthly_totals.actual_work_days = Cardinality(CountedDates)
        /\ work_days_set = CountedDates
        /\ CountedDates \subseteq MonthDates
        /\ monthly_totals.actual_work_days <= Cardinality(MonthDates)

\* a month whose only work lies before 08:00: on the 9th, counted for the
\* 8th, or on the 1st, counted for no date
C13_Witness ==
    /\ pc = "done"
    /\ \E i \in DOMAIN day_log :
          /\ day_log[i].work_segments # <<>>
          /\ \A j \in DOMAIN day_log[i].work_segments :
                day_log[i].work_segments[j].end <= 8 * 60
          /\ day_log[i].date - 1 \in work_days_set
          /\ day_log[i].date \notin work_days_set
    /\ \E i \in DOMAIN day_log :
          /\ day_log[i].date = 1
          /\ day_log[i].work_segments # <<>>
          /\ 1 \notin work_days_set

---------------------------------------------------------------------------
(* Chains across midnight                                                  *)

\* the minutes of a chain
ChainLength(chain) == MinutesBefore(chain, Len(chain) + 1)

\* day_log[i] ends with work up to midnight and day_log[j], the next date,
\* starts with work from minute 0: nothing special and no gap in between
WorkContinuesOverMidnight(i, j) ==
    /\ day_log[j].date = day_log[i].date + 1
    /\ day_log[i].all_events # <<>>
    /\ day_log[j].all_events # <<>>
    /\ day_log[i].all_events[Len(day_log[i].all_events)].type = "work"
    /\ day_log[i].all_events[Len(day_log[i].all_events)].end = MINUTES_PER_DAY
    /\ day_log[j].all_events[1].type = "work"
    /\ day_log[j].all_events[1].start = 0

\* C14: when work continues across midnight with no standby, vacation or
\* sick event and no gap above 60 minutes in between, the minutes on both
\* sides are one chain: the chain index of the first minute after midnight
\* is one more than the index of the last minute before it.
C14_ChainAcrossMidnight ==
    pc = "done" =>
        \A i, j \in DOMAIN day_log :
            WorkContinuesOverMidnight(i, j) =>
                MinutesBefore(day_log[j].chains[1], 1) + 1
                    = ChainLength(day_log[i].chains[Len(day_log[i].chains)]) + 1

---------------------------------------------------------------------------
(* Deduplication before the standby filter                                 *)

\* no two entries of the list share their (start, end) pair
OnePerSpan(segs) ==
    \A a, b \in DOMAIN segs :
        (segs[a].start = segs[b].start /\ segs[a].end = segs[b].end) => a = b

\* C15: when the standby cancellation filter of a day runs, the day's work
\* list and the day's standby list each hold at most one segment per
\* (start, end) pair.
C15_DedupBeforeFilter ==
    \A i \in DOMAIN day_log :
        /\ OnePerSpan(day_log[i].work_segments)
        /\ OnePerSpan(day_log[i].standby_all)

---------------------------------------------------------------------------
(* Reports of a shift type without templates                               *)

\* the complete reports whose shift type has no template
NoTemplateReports ==
    { k \in DOMAIN reports :
        ~IsIncomplete(reports[k]) /\ reports[k].shift_type_id \notin DOMAIN segments_by_shift }

\* minute t of date d is one of the reported minutes of r
ReportCovers(r, d, t) ==
    /\ d \in {r.date, r.date + 1}
    /\ span_minutes(r.start_time, r.end_time).start <= (d - r.date) * MINUTES_PER_DAY + t
    /\ (d - r.date) * MINUTES_PER_DAY + t < span_minutes(r.start_time, r.end_time).end

\* the segments of date d derived from the synthetic template (its id is
\* None) that have the given type and hold minute t
SyntheticAt(d, t, type) ==
    IF FmtDmy(d) \notin DOMAIN daily_map THEN {}
    ELSE { i \in DOMAIN daily_map[FmtDmy(d)].segments :
             /\ daily_map[FmtDmy(d)].segments[i].segment_id = NoneId
             /\ daily_map[FmtDmy(d)].segments[i].type = type
             /\ daily_map[FmtDmy(d)].segments[i].start <= t
             /\ t < daily_map[FmtDmy(d)].segments[i].end }

\* the dates the reports touch
ReportedDates == UNION { {reports[k].date, reports[k].date + 1} : k \in DOMAIN reports }

\* the minutes at which the coverage of a day can change: the first and the
\* last minute of the day and the two minutes around every report boundary
BoundaryMinutes ==
    ( {0, MINUTES_PER_DAY - 1}
      \cup UNION { { b % MINUTES_PER_DAY, (b + MINUTES_PER_DAY - 1) % MINUTES_PER_DAY }
                   : b \in UNION { { span_minutes(reports[k].start_time,
                                                  reports[k].end_time).start,
                                     span_minutes(reports[k].start_time,
                                                  reports[k].end_time).end }
                                   : k \in { j \in DOMAIN reports :
                                                ~IsIncomplete(reports[j]) } } } )

---------------------------------------------------------------------------
(* Incomplete reports                                                      *)

\* the day loop of _process_daily_map as one value: ProcessDay applied to
\* the days of queue in order, from the accumulated acc
RECURSIVE DaysFrom(_, _, _)
DaysFrom(dm, queue, acc) ==
    IF queue = <<>> THEN acc
    ELSE
      With(ProcessEntry(dm[Head(queue)], shabbat_cache, get_standby_rate_from_db),
           LAMBDA day :
        DaysFrom(dm, Tail(queue),
                 [ totals |-> AddDayTotals(acc.totals, day),
                   work_days |-> acc.work_days
                        \cup WorkDaysOf(day.work_segments, day.date, year, month),
                   vacation_days |-> IF day.vacation_segments # <<>>
                                     THEN acc.vacation_days \cup {day.date}
                                     ELSE acc.vacation_days ]))

\* the totals the monthly computation returns when the report query
\* returns rs: ReturnEmpty, or BuildDailyMap, the ProcessDay steps and Finish
TotalsFor(rs) ==
    IF rs = <<>> THEN EmptyMonthlyTotals
    ELSE
      With(_build_daily_map(rs, FetchedTemplates(rs), year, month), LAMBDA dm :
      With(DaysFrom(dm, SortedKeys(DOMAIN dm),
                    [totals |-> ZeroTotals, work_days |-> {}, vacation_days |-> {}]),
           LAMBDA acc :
        MonthlyTotals(acc.totals, acc.work_days, acc.vacation_days, rs,
                      FetchedTemplates(rs), payment_comps, person, minimum_wage,
                      year, month)))

\* the report list without its k-th report
WithoutReport(rs, k) == SubSeq(rs, 1, k - 1) \o SubSeq(rs, k + 1, Len(rs))

\* C17: a report with no start time, no end time or no shift type is left
\* out of the computation: the returned monthly totals, every field
\* including the standby count, equal the totals computed from the same
\* inputs without that report.
C17_IncompleteSkipped ==
    pc = "done" =>
        \A k \in DOMAIN reports :
            IsIncomplete(reports[k]) =>
                monthly_totals = TotalsFor(WithoutReport(reports, k))

\* the returned totals are the totals of the fetched reports
TotalsForAgrees == pc = "done" => monthly_totals = TotalsFor(reports)

---------------------------------------------------------------------------
(* Sick and vacation reports                                               *)

\* the complete reports with a part on date d
ReportsOn(d) ==
    { k \in DOMAIN reports :
        /\ ~IsIncomplete(reports[k])
        /\ \E i \in DOMAIN ReportParts(reports[k]) : ReportParts(reports[k])[i].date = d }

\* every segment of the day has the given type
DayAllOfType(entry, type) ==
    \A i \in DOMAIN entry.segments : entry.segments[i].type = type

\* C18: in the monthly path, the segments derived from a report whose shift
\* name contains the sickness marker have type sick, and those derived from
\* a report whose name contains the vacation marker have type vacation,
\* whatever the template's type: on a day all of whose reports are sick
\* reports every segment is sick, on a day all of whose reports are
\* vacation reports every segment is vacation.
C18_MarkerRelabels ==
    pc \in {"process", "done"} =>
        \A key \in DOMAIN daily_map :
            /\ (\A k \in ReportsOn(daily_map[key].date) :
                    NameContains(reports[k].shift_name, SICK_MARKER))
                  => DayAllOfType(daily_map[key], "sick")
            /\ (\A k \in ReportsOn(daily_map[key].date) :
                    /\ NameContains(reports[k].shift_name, VACATION_MARKER)
                    /\ ~NameContains(reports[k].shift_name, SICK_MARKER))
                  => DayAllOfType(daily_map[key], "vacation")

---------------------------------------------------------------------------
(* Failing lookups                                                         *)

\* the monthly computation has stopped
MonthlyStopped == pc \notin {"start", "process"}

\* C19: when the resolution of a standby rate raises, the person's monthly
\* computation still completes and returns totals: whenever the computation
\* has stopped, it has returned its totals.
C19_LookupFailureTolerated ==
    MonthlyStopped => (pc = "done" /\ monthly_totals # Idle)

---------------------------------------------------------------------------
(* The payment formula                                                     *)

\* 240 times the tier pay of the returned totals, over the minimum wage
WeightedTierMinutes ==
    4 * monthly_totals.wages.calc100 + 5 * monthly_totals.wages.calc125
    + 6 * monthly_totals.wages.calc150 + 7 * monthly_totals.wages.calc175
    + 8 * monthly_totals.wages.calc200

\* C20: payment = (calc100 * 1.0 + calc125 * 1.25 + calc150 * 1.5
\* + calc175 * 1.75 + calc200 * 2.0) / 60 * minimum_wage + standby_payment
\* + vacation_payment, with vacation_payment = vacation_minutes / 60 *
\* minimum_wage, and total_payment = payment + travel + extras; stated with
\* every amount multiplied by 240 (by 60 for the vacation payment).
C20_PaymentFormula ==
    pc = "done" =>
        /\ monthly_totals.vacation_payment_x60
              = monthly_totals.vacation_minutes * minimum_wage
        /\ monthly_totals.payment_x240
              = WeightedTierMinutes * minimum_wage
                + 240 * monthly_totals.standby_payment
                + 4 * monthly_totals.vacation_payment_x60
        /\ monthly_totals.total_payment_x240
              = monthly_totals.payment_x240
                + 240 * (monthly_totals.travel + monthly_totals.extras)

\* a month with minutes at 100%, 125% and 150%, a standby payment, travel
\* and extras
C20_Witness ==
    /\ pc = "done"
    /\ monthly_totals.wages.calc100 > 0
    /\ monthly_totals.wages.calc125 > 0
    /\ monthly_totals.wages.calc150 > 0
    /\ monthly_totals.standby_payment > 0
    /\ monthly_totals.travel > 0
    /\ monthly_totals.extras > 0
    /\ monthly_totals.total_payment_x240 > monthly_totals.payment_x240

---------------------------------------------------------------------------
(* The monthly summary: one computation after the other                    *)

\* the number of people calculate_monthly_summary walks
MaxPeople == 2

\* reports_by_person: the report lists of the people of the summary
PeopleReports ==
    { <<>>,
      << Report(8, 16, 0, 8, 0, 1, <<"night">>, NoneId) >>,
      << Report(5, 12, 0, 20, 0, 3, <<"extra">>, NoneId),
         Report(8, 8, 0, 17, 0, 2, <<"day">>, NoneId) >>,
      << Report(8, 8, 0, 9, 0, 3, <<"extra">>, NoneId),
         Report(8, 10, 0, 11, 0, 3, <<"extra">>, NoneId),
         Report(8, 12, 1, 13, 0, 3, <<"extra">>, NoneId) >>,
      << Report(8, 8, 0, 16, 0, 6, <<"split">>, NoneId),
         Report(8, 12, 0, 13, 0, 3, <<"extra">>, NoneId) >>,
      << Report(8, 17, 0, 8, 0, 1, <<"night">>, NoneId) >>,
      << Report(10, 16, 0, 8, 0, 1, <<"night">>, 7) >> }

\* the templates of every shift type the month's reports name: the one
\* segments_by_shift every person's computation is given
SummaryTemplates ==
    [ id \in UNION { { rs[i].shift_type_id : i \in DOMAIN rs } : rs \in PeopleReports }
              \cap DOMAIN ShiftTable |-> ShiftTable[id] ]

InitSummary ==
    /\ pc = "start"
    /\ year = 2024
    /\ month = 1
    /\ reports \in PeopleReports
    /\ segments_by_shift = SummaryTemplates
    /\ shabbat_cache \in {EmptyCache, GoodCache}
    /\ standby_rates = RateTable
    /\ standby_rates_cache = RateCacheOf(standby_rates)
    /\ person = [start_date |-> [kind |-> "datetime", day |-> 0 - 800]]
    /\ payment_comps = << [total_amount |-> 12000, component_type_id |-> 2] >>
    /\ minimum_wage = 3440
    /\ DerivedInit
    /\ PureIdle

\* a variant of NextPerson whose next computation goes on from the running
\* totals the earlier one left
NextPersonKeepsTotals ==
    /\ pc = "done"
    /\ Len(returned) + 1 < MaxPeople
    /\ returned' = Append(returned, [reports |-> reports, totals |-> monthly_totals])
    /\ reports' \in PeopleReports
    /\ pc' = "start"
    /\ daily_map' = <<>>
    /\ day_queue' = <<>>
    /\ day_log' = <<>>
    /\ work_days_set' = {}
    /\ vacation_days_set' = {}
    /\ monthly_totals' = Idle
    /\ UNCHANGED <<year, month, segments_by_shift, shabbat_cache, standby_rates,
                   standby_rates_cache, person,
                   payment_comps, minimum_wage, pure, totals, daily_segments, part_log>>

\* calculate_monthly_summary's loop: the next person's computation starts.
\* It is given that person's reports and the shared tables; its dicts, sets
\* and lists are created anew by the call
NextPerson ==
    /\ pc = "done"
    /\ Len(returned) + 1 < MaxPeople
    /\ returned' = Append(returned, [reports |-> reports, totals |-> monthly_totals])
    /\ reports' \in PeopleReports
    /\ pc' = "start"
    /\ daily_map' = <<>>
    /\ day_queue' = <<>>
    /\ day_log' = <<>>
    /\ totals' = ZeroTotals
    /\ work_days_set' = {}
    /\ vacation_days_set' = {}
    /\ monthly_totals' = Idle
    /\ UNCHANGED <<year, month, segments_by_shift, shabbat_cache, standby_rates,
                   standby_rates_cache, person,
                   payment_comps, minimum_wage, pure, daily_segments, part_log>>

NextSummary == Next \/ NextPerson

SpecSummary == InitSummary /\ [][NextSummary]_vars

\* the computations that have returned, the running one included
Computations ==
    returned \o (IF pc = "done"
                 THEN << [reports |-> reports, totals |-> monthly_totals] >>
                 ELSE <<>>)

C21_WitnessOrder ==
    /\ pc = "done"
    /\ Len(returned) = 1
    /\ returned[1].reports # reports
    /\ returned[1].reports # <<>>
    /\ monthly_totals.total_hours > 0

---------------------------------------------------------------------------
(* Where the event walk closes a chain                                     *)

\* the number of work events among the first k events of a processed day
WorkEventsUpTo(day, k) ==
    Len(SelectSeq(SubSeq(day.all_events, 1, k), LAMBDA e : ~IsSpecial(e)))

\* the index, from c on, of the closed chain that holds the w-th of the
\* work events left
RECURSIVE ChainIndex(_, _, _)
ChainIndex(chains, c, w) ==
    IF w <= Len(chains[c]) THEN c ELSE ChainIndex(chains, c + 1, w - Len(chains[c]))

\* the chain that was open after the k-th event, a work event, was closed
\* before the next work event joined a chain
ClosedAfter(day, k) ==
    With(WorkEventsUpTo(day, k), LAMBDA w :
        \/ w = WorkEventsUpTo(day, Len(day.all_events))
        \/ ChainIndex(day.chains, 1, w) # ChainIndex(day.chains, 1, w + 1))

\* the k-th event is a work event followed by a work event `gap` minutes
\* after its end
WorkGap(day, k, gap) ==
    /\ k \in 1..(Len(day.all_events) - 1)
    /\ ~IsSpecial(day.all_events[k])
    /\ ~IsSpecial(day.all_events[k + 1])
    /\ day.all_events[k + 1].start - day.all_events[k].end = gap

\* C22: in the event walk of a day an open chain is closed exactly when the
\* next event is a standby or a vacation, or a work event that starts more
\* than 60 minutes after the end of the previous work event; a gap of
\* exactly 60 minutes, and work events that touch or overlap, keep it open.
C22_ChainBreak ==
    \A d \in DOMAIN day_log :
        \A k \in 1..(Len(day_log[d].all_events) - 1) :
            ~IsSpecial(day_log[d].all_events[k]) =>
                With(day_log[d].all_events[k + 1], LAMBDA next :
                    IF IsSpecial(next)
                    THEN ClosedAfter(day_log[d], k)
                    ELSE ClosedAfter(day_log[d], k)
                         <=> (next.start - day_log[d].all_events[k].end
                                  > BREAK_THRESHOLD_MINUTES))

\* a day with a gap of exactly 60 minutes, kept in the chain, and a gap of
\* 61 minutes, where the chain was closed
C22_Witness ==
    \E d \in DOMAIN day_log :
        /\ WorkGap(day_log[d], 1, BREAK_THRESHOLD_MINUTES)
        /\ ~ClosedAfter(day_log[d], 1)
        /\ WorkGap(day_log[d], 2, BREAK_THRESHOLD_MINUTES + 1)
        /\ ClosedAfter(day_log[d], 2)
        /\ Len(day_log[d].chains) = 2

---------------------------------------------------------------------------
(* Every work minute of a day reaches a tier                               *)

\* the sum, over the processed days from the d-th on, of the durations of
\* their deduplicated work segments
RECURSIVE SumWorkMinutes(_, _)
SumWorkMinutes(log, d) ==
    IF d > Len(log) THEN 0
    ELSE SumDurations(log[d].work_segments) + SumWorkMinutes(log, d + 1)

\* C23: no chain is left open after a day: the day's calc100 + calc125 +
\* calc150 + calc175 + calc200 is the sum of the durations of the day's
\* deduplicated work segments, and total_hours is that sum over all the
\* days, in the running totals and in the returned ones.
C23_NoChainLeftOpen ==
    /\ \A d \in DOMAIN day_log :
           TierSum(day_log[d].day_wages) = SumDurations(day_log[d].work_segments)
    /\ totals.total_hours = SumWorkMinutes(day_log, 1)
    /\ (pc = "done" /\ reports # <<>>)
           => monthly_totals.total_hours = SumWorkMinutes(day_log, 1)

\* a month has returned with a day of two chains, the second one closed by
\* the end of the day, and work on another day
C23_Witness ==
    /\ pc = "done"
    /\ Len(day_log) = 2
    /\ Len(day_log[1].chains) = 2
    /\ Len(day_log[1].work_segments) >= 2
    /\ day_log[2].work_segments # <<>>
    /\ monthly_totals.total_hours > 0

---------------------------------------------------------------------------
(* The segments of the daily map                                           *)

\* the segment lies inside a part, on the given date, of a complete report
\* of its shift type
InsideItsPart(seg, date) ==
    \E k \in DOMAIN reports :
        /\ ~IsIncomplete(reports[k])
        /\ reports[k].shift_type_id = seg.shift_id
        /\ \E i \in DOMAIN ReportParts(reports[k]) :
               With(ReportParts(reports[k])[i], LAMBDA part :
                   /\ part.date = date
                   /\ part.start <= seg.start
                   /\ seg.end <= part.end)

\* C26: every segment _build_daily_map stored has 0 <= start < end <= 1440,
\* lies inside its report part, and has its date in the requested year and
\* month; hence every minute a chain classifies has an offset below 1440.
C26_SegmentBounds ==
    /\ \A key \in DOMAIN daily_map :
           /\ InMonth(daily_map[key].date, year, month)
           /\ \A i \in DOMAIN daily_map[key].segments :
                  With(daily_map[key].segments[i], LAMBDA seg :
                      /\ 0 <= seg.start
                      /\ seg.start < seg.end
                      /\ seg.end <= MINUTES_PER_DAY
                      /\ InsideItsPart(seg, daily_map[key].date))
    /\ \A d \in DOMAIN day_log :
           \A c \in DOMAIN day_log[d].chains :
               \A i \in DOMAIN day_log[d].chains[c] :
                   /\ 0 <= day_log[d].chains[c][i].start
                   /\ day_log[d].chains[c][i].end <= MINUTES_PER_DAY

\* an overnight report was split: its first part ends a segment at 1440 and
\* its second starts one at 0 on the next date, and both days were classified
C26_Witness ==
    /\ pc = "done"
    /\ Len(day_log) = 2
    /\ day_log[2].date = day_log[1].date + 1
    /\ \E i \in DOMAIN daily_map[FmtDmy(day_log[1].date)].segments :
           daily_map[FmtDmy(day_log[1].date)].segments[i].end = MINUTES_PER_DAY
    /\ \E i \in DOMAIN daily_map[FmtDmy(day_log[2].date)].segments :
           daily_map[FmtDmy(day_log[2].date)].segments[i].start = 0
    /\ day_log[1].chains # <<>>
    /\ day_log[2].chains # <<>>

---------------------------------------------------------------------------
(* Cancelled standby                                                       *)

\* the entry of a day without its i-th segment
WithoutSegment(entry, i) ==
    [entry EXCEPT !.segments = SubSeq(@, 1, i - 1) \o SubSeq(@, i + 1, Len(@))]

\* the i-th segment of the day's entry is a standby the 70% rule cancels
CancelledStandby(day, entry, i) ==
    /\ IsStandbySeg(entry.segments[i])
    /\ entry.segments[i].end - entry.segments[i].start > 0
    /\ CancelledByRule(entry.segments[i], day.work_segments)

\* C24: a cancelled standby has no effect on its day: it draws no fee and
\* breaks no work chain; the day's chains, tier minutes and standby payment
\* are those the day has with that standby segment removed.
C24_CancelledStandbyNoEffect ==
    \A d \in DOMAIN day_log :
        With(daily_map[FmtDmy(day_log[d].date)], LAMBDA entry :
            \A i \in DOMAIN entry.segments :
                CancelledStandby(day_log[d], entry, i) =>
                    With(ProcessEntry(WithoutSegment(entry, i), shabbat_cache,
                                      get_standby_rate_fn), LAMBDA without :
                        /\ ~InSeq(entry.segments[i], day_log[d].paid)
                        /\ day_log[d].chains = without.chains
                        /\ day_log[d].day_wages = without.day_wages
                        /\ day_log[d].day_standby_payment = without.day_standby_payment))

\* a processed day whose cancelled standby lies between the work segments
\* of one chain of three
C24_Witness ==
    /\ pc = "done"
    /\ \E d \in DOMAIN day_log :
           /\ \E i \in DOMAIN daily_map[FmtDmy(day_log[d].date)].segments :
                  CancelledStandby(day_log[d], daily_map[FmtDmy(day_log[d].date)], i)
           /\ day_log[d].day_standby_payment = 0
           /\ day_log[d].day_wages.calc100 = REGULAR_HOURS_LIMIT
           /\ Len(day_log[d].chains) = 1
           /\ Len(day_log[d].chains[1]) = 3

---------------------------------------------------------------------------
(* Chain minutes past the end of the chain's date                          *)

\* the offset of the minute the loop is about to classify
NextMinuteAbs == fn_args.chain_segments[chain_pos.k].start + chain_pos.m

\* whether Shabbat holds at that minute by the window of the Saturday that
\* belongs to the date the minute falls on: the chain's date advanced by
\* offset div 1440
ShabbatOnItsDate ==
    is_shabbat_time(EffWeekday(fn_args.day_date, NextMinuteAbs),
                    NextMinuteAbs % MINUTES_PER_DAY,
                    fn_args.chain_segments[chain_pos.k].shift_id,
                    fn_args.day_date + (NextMinuteAbs \div MINUTES_PER_DAY),
                    fn_args.shabbat_cache).value

---------------------------------------------------------------------------
(* A report that starts inside a template                                  *)

\* the k-th report is complete, dated in the month and ends after midnight
OvernightReport(k) ==
    /\ ~IsIncomplete(reports[k])
    /\ InMonth(reports[k].date, year, month)
    /\ span_minutes(reports[k].start_time, reports[k].end_time).end > MINUTES_PER_DAY

\* the daily map holds, on the date, a segment of the template from start
\* to end
RecordedOn(date, template, start, end) ==
    /\ FmtDmy(date) \in DOMAIN daily_map
    /\ \E i \in DOMAIN daily_map[FmtDmy(date)].segments :
           With(daily_map[FmtDmy(date)].segments[i], LAMBDA seg :
               /\ seg.segment_id = template.id
               /\ seg.start = start
               /\ seg.end = end)

\* the report's start lies strictly inside the span of the template
StartsInside(r, template) ==
    With(span_minutes(template.start_time, template.end_time), LAMBDA t :
        /\ t.start < span_minutes(r.start_time, r.end_time).start
        /\ span_minutes(r.start_time, r.end_time).start < t.end)

\* C27: for an overnight report whose start lies strictly inside the span
\* of a template (17:00-08:00 against the work template 16:00-22:00), the
\* minutes from the start of the report to the end of the template, or to
\* midnight, are recorded as a segment on the report's date: the alignment
\* of the template drops no minute the two share.
C27_AlignKeepsSharedMinutes ==
    pc \in {"process", "done"} =>
        \A k \in DOMAIN reports :
            OvernightReport(k) =>
                \A j \in DOMAIN SegList(reports[k], segments_by_shift) :
                    With(SegList(reports[k], segments_by_shift)[j], LAMBDA template :
                        StartsInside(reports[k], template) =>
                            RecordedOn(reports[k].date, template,
                                span_minutes(reports[k].start_time,
                                             reports[k].end_time).start,
                                Min(span_minutes(template.start_time,
                                                 template.end_time).end,
                                    MINUTES_PER_DAY)))

---------------------------------------------------------------------------
(* A report over the end of the month                                      *)

\* the report query: the person's rows WHERE tr.date >= start_ts AND
\* tr.date < end_ts of the month, in their order
MonthQuery(rows, y, m) == SelectSeq(rows, LAMBDA r : InMonth(r.date, y, m))

FollowingYear == IF month = 12 THEN year + 1 ELSE year

FollowingMonth == IF month = 12 THEN 1 ELSE month + 1

\* the daily map of the computation of the following month for the person
\* whose time reports are the fetched ones
FollowingMonthMap ==
    With(MonthQuery(reports, FollowingYear, FollowingMonth), LAMBDA rs :
        _build_daily_map(rs, FetchedTemplates(rs), FollowingYear, FollowingMonth))

\* the minute of the date lies in a segment of the map
CountedIn(dm, date, minute) ==
    /\ FmtDmy(date) \in DOMAIN dm
    /\ \E i \in DOMAIN dm[FmtDmy(date)].segments :
           /\ dm[FmtDmy(date)].segments[i].start <= minute
           /\ minute < dm[FmtDmy(date)].segments[i].end

\* the k-th report is an overnight report dated on the last day of the month
LastDayOvernight(k) ==
    /\ OvernightReport(k)
    /\ ~InMonth(reports[k].date + 1, year, month)

\* C28: over the computations of the months M and M+1 of one person, every
\* minute of an overnight report dated on the last day of M is counted in
\* exactly one of the two: the minutes before midnight in M and not in M+1,
\* the minutes after midnight in M+1 and not in M.
C28_MonthBoundary ==
    pc \in {"process", "done"} =>
        \A k \in DOMAIN reports :
            LastDayOvernight(k) =>
                With(span_minutes(reports[k].start_time, reports[k].end_time), LAMBDA sp :
                    /\ \A minute \in sp.start..(MINUTES_PER_DAY - 1) :
                           /\ CountedIn(daily_map, reports[k].date, minute)
                           /\ ~CountedIn(FollowingMonthMap, reports[k].date, minute)
                    /\ \A minute \in 0..(sp.end - MINUTES_PER_DAY - 1) :
                           /\ CountedIn(FollowingMonthMap, reports[k].date + 1, minute)
                           /\ ~CountedIn(daily_map, reports[k].date + 1, minute))

---------------------------------------------------------------------------
(* The table lookup and the pre-loaded lookup                              *)

\* every (segment, apartment type, marital status, priority) key occurs in
\* at most one row of the table
UniqueRateKeys(rows) ==
    \A a, b \in rows : RateKey(a) = RateKey(b) => a = b

\* C29: the computation that queries the standby_rates table on every
\* lookup and the one that is handed the pre-loaded cache return the same
\* monthly totals for the same person, reports, templates, payment
\* components, Shabbat table and minimum wage, when every key occurs at most
\* once in the table: what the computation with the cache has returned is
\* what the computation with the table returns for its reports.
C29_TableAndCacheAgree ==
    (/\ pc = "done"
     /\ standby_rates_cache # Idle
     /\ UniqueRateKeys(standby_rates))
        => monthly_totals = TotalsFor(reports)

\* a computation with the cache has returned the pay of a standby whose
\* apartment type has a rate of its own, different from the general one
C29_Witness ==
    /\ pc = "done"
    /\ standby_rates_cache # Idle
    /\ UniqueRateKeys(standby_rates)
    /\ monthly_totals.standby_payment = 9000
    /\ get_standby_rate(standby_rates, 12, NoneId, FALSE) = 5000
    /\ monthly_totals.wages.calc100 > 0

---------------------------------------------------------------------------
(* The per-day breakdown against the monthly totals                        *)

\* the sum of a field over the days of get_daily_segments_data's result,
\* from the k-th on
RECURSIVE SumOverDays(_, _, _)
SumOverDays(days, field, k) ==
    IF k > Len(days) THEN 0 ELSE days[k][field] + SumOverDays(days, field, k + 1)

\* C30: the per-day breakdown and the monthly totals agree: the sums over
\* all days of calc100, calc125, calc150, calc175, calc200 and
\* standby_payment of get_daily_segments_data's result are the fields that
\* _build_daily_map and _process_daily_map compute for the same reports.
C30_DailyMatchesMonthly ==
    pc = "daily_done" =>
        With(TotalsFor(reports), LAMBDA m :
            /\ \A key \in TierKeys :
                   SumOverDays(daily_segments, key, 1) = m.wages[key]
            /\ SumOverDays(daily_segments, "standby_payment", 1) = m.standby_payment)

====
